---- MODULE Spec2Model ----
(***************************************************************************)
(* The clustering engine of plugins/color-quantize (src/lib.rs): the       *)
(* Hamerly-accelerated Lloyd loop run_kmeans, the drivers run_xmeans and   *)
(* run_gmeans, the initializers and run_cluster_method.                    *)
(*                                                                         *)
(* Numbers.  An f32/f64 quantity q of the program is the integer q * One   *)
(* (fixed point, One = 1.0); a squared distance is in units of 1/One^2.    *)
(* Sample colours lie on a grid whose step makes every cluster mean and    *)
(* every half distance of the runs below an exact integer, so the model's  *)
(* arithmetic is the program's arithmetic without rounding error.  A u32   *)
(* is a pair <<hi, lo>> of 16-bit limbs and a u64 four such limbs, most    *)
(* significant first (the constants of the source are written that way).   *)
(***************************************************************************)
EXTENDS Integers, Sequences, FiniteSets, TLC

One == 1200
Inf == 1000000000

\* a sequence given as a function, with every element evaluated once
Strict(f) == f \o <<>>

Min2(a, b) == IF a <= b THEN a ELSE b
Max2(a, b) == IF a >= b THEN a ELSE b
Abs(a) == IF a < 0 THEN -a ELSE a

MAX_CLUSTERS == 64
MAX_SELECTED_COLORS == 8
SPLIT_DECISION_MAX_SAMPLES == 4096

\* q <= HAMERLY_EPSILON (1.0e-4) for a distance q in units of 1/One
LeHamerlyEpsilon(q) == q * 10000 <= One

\* d < 1.0e-8 for a squared distance d in units of 1/One^2
LtDedupEpsilon(d) ==
  /\ d <= (One * One) \div 100000000
  /\ d * 100000000 < One * One

\* |d| < 1.0e-6 for a difference d in units of 1/One
LtSameEpsilon(d) == Abs(d) * 1000000 < One

(***************************************************************************)
(* f32::sqrt on a squared distance: the integer square root (exact on the  *)
(* perfect squares that one-axis samples produce); sqrt(inf) = inf.  A     *)
(* squared distance is at most 3 One^2, its root below 4096.               *)
(***************************************************************************)
RECURSIVE SqrtBits(_, _, _)
SqrtBits(n, r, b) ==
  IF b = 0 THEN r
  ELSE IF (r + b) * (r + b) <= n THEN SqrtBits(n, r + b, b \div 2)
       ELSE SqrtBits(n, r, b \div 2)

Sqrt(n) == IF n >= Inf THEN Inf ELSE SqrtBits(n, 0, 2048)

(***************************************************************************)
(* XorShift64.  Bits are numbered 0 (least significant) to 63.             *)
(***************************************************************************)
Pow2(n) == 2 ^ n

LimbBit(limb, j) == ((limb \div Pow2(j)) % 2) = 1

\* the 64 bits of four 16-bit limbs (most significant limb first); bit i is
\* element i + 1
BitsOf(l) == Strict([i \in 1..64 |-> LimbBit(l[4 - ((i - 1) \div 16)], (i - 1) % 16)])

\* the value of bits base .. base + 3
Nibble(bits, base) ==
  (IF bits[base + 1] THEN 1 ELSE 0) + (IF bits[base + 2] THEN 2 ELSE 0)
    + (IF bits[base + 3] THEN 4 ELSE 0) + (IF bits[base + 4] THEN 8 ELSE 0)

\* the value of the 16-bit limb that starts at bit base
LimbValue(bits, base) ==
  Nibble(bits, base) + 16 * Nibble(bits, base + 4) + 256 * Nibble(bits, base + 8)
    + 4096 * Nibble(bits, base + 12)

LimbsOf(bits) == << LimbValue(bits, 48), LimbValue(bits, 32),
                    LimbValue(bits, 16), LimbValue(bits, 0) >>

Xor(x, y) == Strict([i \in 1..64 |-> x[i] # y[i]])

\* x ^ (x << n) and x ^ (x >> n)
XorShl(x, n) == Strict([i \in 1..64 |-> x[i] # (IF i > n THEN x[i - n] ELSE FALSE)])
XorShr(x, n) == Strict([i \in 1..64 |-> x[i] # (IF i + n <= 64 THEN x[i + n] ELSE FALSE)])

\* x ^= x << 13; x ^= x >> 7; x ^= x << 17
XorShiftStep(x) == XorShl(XorShr(XorShl(x, 13), 7), 17)

\* XorShift64::next_u64: the new state, which is also the value drawn
Rng_next_u64(state) == LimbsOf(XorShiftStep(BitsOf(state)))

\* a u64 modulo a small positive m: Horner's rule over the limbs
Horner(l, m, r) == ((((((l[1] % m) * r + l[2]) % m) * r + l[3]) % m) * r + l[4]) % m

U64Mod(l, m) == Horner(l, m, 65536 % m)

\* seed as u64 ^ constant, for a u32 seed <<hi, lo>>
SeedXor(seed, const) ==
  LimbsOf(Xor(BitsOf(<<0, 0, seed[1], seed[2]>>), BitsOf(const)))

\* XorShift64::new
Rng_new(seed64) ==
  IF seed64 = <<0, 0, 0, 0>> THEN <<40503, 31161, 32586, 31765>> ELSE seed64

\* (next_u64() % upper) and the state it leaves
IndexOf(x, upper) == <<U64Mod(x, upper), x>>

\* XorShift64::gen_index: <<index, new state>>
Rng_gen_index(state, upper) ==
  IF upper <= 1 THEN <<0, state>> ELSE IndexOf(Rng_next_u64(state), upper)

\* u32 arithmetic
U32(n) == << n \div 65536, n % 65536 >>

WrappingAdd(a, b) ==
  << (a[1] + b[1] + ((a[2] + b[2]) \div 65536)) % 65536, (a[2] + b[2]) % 65536 >>

(***************************************************************************)
(* Feature vectors: <<c0, c1, c2, alpha>>.  A sample array is a sequence   *)
(* of feature vectors; sample_at(samples, idx) is samples[idx + 1].        *)
(***************************************************************************)
sample_at(samples, idx) == samples[idx + 1]

has_circular_hue(color_space) == color_space \in {"Oklch", "Hsv"}

clamp01(v) == IF v < 0 THEN 0 ELSE IF v > One THEN One ELSE v

\* the difference left as it is
Wrapped_Plain(d) == d

\* the shorter way round the hue circle, for a difference d
Wrapped(d) ==
  IF 2 * d > One THEN d - One
  ELSE IF 2 * d < -One THEN d + One
  ELSE d

circular_delta(a, b) == Wrapped(a - b)

feature_delta(a, b, color_space) ==
  IF has_circular_hue(color_space) THEN circular_delta(a, b) ELSE a - b

Sq(x) == x * x

\* the distance with the alpha component counted in
feature_distance_sq_WithAlpha(a, b, color_space) ==
  Sq(feature_delta(a[1], b[1], color_space)) + Sq(a[2] - b[2]) + Sq(a[3] - b[3])
    + Sq(a[4] - b[4])

feature_distance_sq(a, b, color_space) ==
  Sq(feature_delta(a[1], b[1], color_space)) + Sq(a[2] - b[2]) + Sq(a[3] - b[3])

\* the comparison of line 1867 turned round
NearestStep_KeepsFarther(sample, centroids, color_space, idx, best_idx, best_dist, dist) ==
  IF dist > best_dist THEN <<idx, dist>> ELSE <<best_idx, best_dist>>

\* lines 1866-1870: <<best_idx, best_dist>> after centroid idx, at distance dist
NearestStep(sample, centroids, color_space, idx, best_idx, best_dist, dist) ==
  IF dist < best_dist THEN <<idx, dist>> ELSE <<best_idx, best_dist>>

\* lines 1865-1871 for the centroids lo..hi (from zero), from <<best_idx,
\* best_dist>> = best: those of the first half, then the rest
RECURSIVE NearestScan(_, _, _, _, _, _)
NearestScanOn(sample, centroids, color_space, lo, hi, best) ==
  IF best[2] >= 0 THEN NearestScan(sample, centroids, color_space, lo, hi, best)
  ELSE best

NearestScan(sample, centroids, color_space, lo, hi, best) ==
  IF lo > hi THEN best
  ELSE IF lo = hi
  THEN NearestStep(sample, centroids, color_space, lo, best[1], best[2],
                   feature_distance_sq(sample, centroids[lo + 1], color_space))
  ELSE NearestScanOn(sample, centroids, color_space, (lo + hi) \div 2 + 1, hi,
                     NearestScan(sample, centroids, color_space, lo, (lo + hi) \div 2,
                                 best))

\* the index counted from one
nearest_centroid_idx_OneBased(sample, centroids, color_space) ==
  << NearestScan(sample, centroids, color_space, 0, Len(centroids) - 1, <<0, Inf>>)[1] + 1,
     NearestScan(sample, centroids, color_space, 0, Len(centroids) - 1, <<0, Inf>>)[2] >>

nearest_centroid_idx(sample, centroids, color_space) ==
  NearestScan(sample, centroids, color_space, 0, Len(centroids) - 1, <<0, Inf>>)

\* nearest_two_centroids from centroid idx on: <<best_idx, best_dist, second_dist>>
RECURSIVE NearestTwoScan(_, _, _, _, _, _, _)
NearestTwoStep(sample, centroids, color_space, idx, best_idx, best_dist, second_dist, dist) ==
  IF dist < best_dist
  THEN NearestTwoScan(sample, centroids, color_space, idx + 1, idx, dist, best_dist)
  ELSE IF dist < second_dist
  THEN NearestTwoScan(sample, centroids, color_space, idx + 1, best_idx, best_dist, dist)
  ELSE NearestTwoScan(sample, centroids, color_space, idx + 1, best_idx, best_dist,
                      second_dist)

NearestTwoScan(sample, centroids, color_space, idx, best_idx, best_dist, second_dist) ==
  IF idx >= Len(centroids) THEN <<best_idx, best_dist, second_dist>>
  ELSE NearestTwoStep(sample, centroids, color_space, idx, best_idx, best_dist,
                      second_dist,
                      feature_distance_sq(sample, centroids[idx + 1], color_space))

nearest_two_centroids(sample, centroids, color_space) ==
  NearestTwoScan(sample, centroids, color_space, 0, 0, Inf, Inf)

MinOf(set) == CHOOSE d \in set : \A e \in set : d <= e

\* min over j # i of 0.5 * distance(centroids[i], centroids[j]), per centroid
half_min_center_distances(centroids, color_space) ==
  IF Len(centroids) = 0 THEN <<>>
  ELSE IF Len(centroids) = 1 THEN <<Inf>>
  ELSE Strict([i \in 1..Len(centroids) |->
         MinOf({Sqrt(feature_distance_sq(centroids[i], centroids[j], color_space)) \div 2 :
                  j \in (1..Len(centroids)) \ {i}})])

\* every centroid from the i-th on is kept, whatever it is near to
DedupFrom_KeepsRest(centroids, color_space, i, unique) ==
  unique \o SubSeq(centroids, i, Len(centroids))

RECURSIVE DedupFrom(_, _, _, _)
DedupFrom(centroids, color_space, i, unique) ==
  IF i > Len(centroids) THEN unique
  ELSE IF \E j \in 1..Len(unique) :
            LtDedupEpsilon(feature_distance_sq(unique[j], centroids[i], color_space))
       THEN DedupFrom(centroids, color_space, i + 1, unique)
       ELSE DedupFrom(centroids, color_space, i + 1, Append(unique, centroids[i]))

\* the list as it is, duplicates kept
dedup_centroids_KeepsAll(centroids, color_space) == centroids

dedup_centroids(centroids, color_space) == DedupFrom(centroids, color_space, 1, <<>>)

nearly_same_feature(a, b) ==
  /\ LtSameEpsilon(a[1] - b[1])
  /\ LtSameEpsilon(a[2] - b[2])
  /\ LtSameEpsilon(a[3] - b[3])
  /\ LtSameEpsilon(a[4] - b[4])

\* `if centroids.is_empty() { centroids.push(sample_at(samples, 0)) }`
OrFirstSample(samples, centroids) ==
  IF centroids = <<>> THEN <<sample_at(samples, 0)>> ELSE centroids

(***************************************************************************)
(* ClusterAccum, for the colour spaces without a circular hue (the runs    *)
(* below use no other): sums of the four channels and a count.             *)
(***************************************************************************)
\* s[lo] + ... + s[hi]
RECURSIVE SumRange(_, _, _)
SumRange(s, lo, hi) ==
  IF lo > hi THEN 0
  ELSE IF lo = hi THEN s[lo]
  ELSE SumRange(s, lo, (lo + hi) \div 2) + SumRange(s, (lo + hi) \div 2 + 1, hi)

SumSeq(s) == SumRange(s, 1, Len(s))

\* the sum of channel ch over the samples labelled c
ChannelSum(samples, labels, c, ch) ==
  SumSeq([i \in 1..Len(samples) |-> IF labels[i] = c THEN samples[i][ch] ELSE 0])

\* the count without the first sample
CountLabel_SkipsFirst(labels, c) ==
  SumSeq([i \in 1..(Len(labels) - 1) |-> IF labels[i + 1] = c THEN 1 ELSE 0])

CountLabel(labels, c) == SumSeq([i \in 1..Len(labels) |-> IF labels[i] = c THEN 1 ELSE 0])

\* the accumulator of cluster c after accumulate(sample) for each of its samples
ClusterAccum_accumulate(samples, labels, c) ==
  [sum0 |-> ChannelSum(samples, labels, c, 1), sum1 |-> ChannelSum(samples, labels, c, 2),
   sum2 |-> ChannelSum(samples, labels, c, 3), sum3 |-> ChannelSum(samples, labels, c, 4),
   count |-> CountLabel(labels, c)]

ClusterAccum_mean(acc) ==
  IF acc.count = 0 THEN <<0, 0, 0, One>>
  ELSE << clamp01(acc.sum0 \div acc.count), clamp01(acc.sum1 \div acc.count),
          clamp01(acc.sum2 \div acc.count), clamp01(acc.sum3 \div acc.count) >>

EmptyResult == [centroids |-> <<>>, labels |-> <<>>, counts |-> <<>>,
                sse_per_cluster |-> <<>>]

(***************************************************************************)
(* run_kmeans.  The locals of one call are a record                        *)
(*   [centroids, labels, upper, lower, rng, iterations, stop]              *)
(* (labels are 0-based centroid indices, as in the source).                *)
(***************************************************************************)
RngKMeans == <<41426, 50164, 21930, 4352>>      \* 0xA1D2_C3F4_55AA_1100

\* lines 1182-1195: the first, exact assignment; near[i] is the result of
\* nearest_two_centroids for sample i
FirstBounds(centroids, near, seed) ==
  [centroids  |-> centroids,
   labels     |-> Strict([i \in 1..Len(near) |-> near[i][1]]),
   upper      |-> Strict([i \in 1..Len(near) |-> Sqrt(near[i][2])]),
   lower      |-> Strict([i \in 1..Len(near) |-> Sqrt(near[i][3])]),
   rng        |-> Rng_new(SeedXor(seed, RngKMeans)),
   iterations |-> 0,
   stop       |-> FALSE]

FirstAssignment(samples, centroids, color_space, seed) ==
  FirstBounds(centroids,
              Strict([i \in 1..Len(samples) |->
                        nearest_two_centroids(samples[i], centroids, color_space)]),
              seed)

\* lines 1178-1195: dedup of the initial centroids, exact first assignment
KMeansEnter(samples, initial_centroids, color_space, seed) ==
  FirstAssignment(samples,
                  OrFirstSample(samples, dedup_centroids(initial_centroids, color_space)),
                  color_space, seed)

\* lines 1218-1226: the sample is assigned anew
Reassigned(current, near) ==
  [label |-> near[1], upper |-> Sqrt(near[2]), lower |-> Sqrt(near[3]),
   changed |-> near[1] # current]

\* lines 1211-1226: the upper bound is tightened to the distance current_dist
Tightened(sample, current, lo, centroids, separation, color_space, current_dist) ==
  IF current_dist <= Max2(separation[current + 1], lo)
  THEN [label |-> current, upper |-> current_dist, lower |-> lo, changed |-> FALSE]
  ELSE Reassigned(current, nearest_two_centroids(sample, centroids, color_space))

\* lines 1203-1226: one sample of the assignment pass
AssignSample(sample, current, up, lo, centroids, separation, color_space) ==
  IF up <= Max2(separation[current + 1], lo)
  THEN [label |-> current, upper |-> up, lower |-> lo, changed |-> FALSE]
  ELSE Tightened(sample, current, lo, centroids, separation, color_space,
                 Sqrt(feature_distance_sq(sample, centroids[current + 1], color_space)))

\* lines 1232-1237: the centroids from cluster_idx on, re-seeding empty clusters
RECURSIVE RecomputeFrom(_, _, _, _, _)
Reseeded(samples, accums, cluster_idx, centroids, g) ==
  RecomputeFrom(samples, accums, cluster_idx + 1,
                [centroids EXCEPT ![cluster_idx + 1] = sample_at(samples, g[1])], g[2])

RecomputeFrom(samples, accums, cluster_idx, centroids, rng) ==
  IF cluster_idx >= Len(centroids) THEN [centroids |-> centroids, rng |-> rng]
  ELSE IF accums[cluster_idx + 1].count = 0
       THEN Reseeded(samples, accums, cluster_idx, centroids,
                     Rng_gen_index(rng, Len(samples)))
       ELSE RecomputeFrom(samples, accums, cluster_idx + 1,
              [centroids EXCEPT ![cluster_idx + 1] =
                 ClusterAccum_mean(accums[cluster_idx + 1])],
              rng)

SeqMax(s) == IF s = <<>> THEN 0 ELSE -MinOf({-s[i] : i \in 1..Len(s)})

\* the lower bound left where it was
LowerAfterMove_Keeps(lo, max_move) == lo

\* (lower - max_move).max(0.0), with inf - x = inf
LowerAfterMove(lo, max_move) == IF lo >= Inf THEN Inf ELSE Max2(lo - max_move, 0)

\* the upper bounds left where the assignment pass put them
BoundsMoved_UpperStays(km, pass, labels, moved, movements, max_move) ==
  [centroids  |-> moved.centroids,
   labels     |-> labels,
   upper      |-> Strict([i \in 1..Len(pass) |-> pass[i].upper]),
   lower      |-> Strict([i \in 1..Len(pass) |-> LowerAfterMove(pass[i].lower, max_move)]),
   rng        |-> moved.rng,
   iterations |-> km.iterations + 1,
   stop       |-> (\A i \in 1..Len(pass) : ~pass[i].changed) /\ LeHamerlyEpsilon(max_move)]

\* the loop ended by unchanged labels alone
BoundsMoved_StopsOnLabels(km, pass, labels, moved, movements, max_move) ==
  [centroids  |-> moved.centroids,
   labels     |-> labels,
   upper      |-> Strict([i \in 1..Len(pass) |-> pass[i].upper + movements[labels[i] + 1]]),
   lower      |-> Strict([i \in 1..Len(pass) |-> LowerAfterMove(pass[i].lower, max_move)]),
   rng        |-> moved.rng,
   iterations |-> km.iterations + 1,
   stop       |-> \A i \in 1..Len(pass) : ~pass[i].changed]

\* lines 1250-1258: the bounds follow the centroids; the test that ends the loop
BoundsMoved(km, pass, labels, moved, movements, max_move) ==
  [centroids  |-> moved.centroids,
   labels     |-> labels,
   upper      |-> Strict([i \in 1..Len(pass) |-> pass[i].upper + movements[labels[i] + 1]]),
   lower      |-> Strict([i \in 1..Len(pass) |-> LowerAfterMove(pass[i].lower, max_move)]),
   rng        |-> moved.rng,
   iterations |-> km.iterations + 1,
   stop       |-> (\A i \in 1..Len(pass) : ~pass[i].changed) /\ LeHamerlyEpsilon(max_move)]

\* lines 1238-1248: how far each centroid moved
Movements(km, pass, labels, moved, movements) ==
  BoundsMoved(km, pass, labels, moved, movements, SeqMax(movements))

\* lines 1229-1248: the centroids are recomputed from the accumulators
Recomputed(km, pass, labels, moved, color_space) ==
  Movements(km, pass, labels, moved,
            Strict([c \in 1..Len(km.centroids) |->
                      Sqrt(feature_distance_sq(km.centroids[c], moved.centroids[c],
                                               color_space))]))

Accumulated(samples, km, pass, labels, color_space) ==
  Recomputed(km, pass, labels,
             RecomputeFrom(samples,
                           Strict([c \in 1..Len(km.centroids) |->
                                     ClusterAccum_accumulate(samples, labels, c - 1)]),
                           0, km.centroids, km.rng),
             color_space)

\* lines 1202-1227: the assignment pass over the samples
Assigned(samples, km, pass, color_space) ==
  Accumulated(samples, km, pass, Strict([i \in 1..Len(pass) |-> pass[i].label]),
              color_space)

Separated(samples, km, separation, color_space) ==
  Assigned(samples, km,
           Strict([i \in 1..Len(samples) |->
                     AssignSample(samples[i], km.labels[i], km.upper[i], km.lower[i],
                                  km.centroids, separation, color_space)]),
           color_space)

\* lines 1198-1258: one iteration of the Lloyd loop
LloydIteration(samples, km, color_space) ==
  Separated(samples, km, half_min_center_distances(km.centroids, color_space),
            color_space)

\* lines 1269-1274: the squared distances added to sse_per_cluster[c]
SumWhere(samples, labels, centroids, color_space, c) ==
  SumSeq([i \in 1..Len(samples) |->
            IF labels[i] = c
            THEN feature_distance_sq(samples[i], centroids[c + 1], color_space)
            ELSE 0])

\* lines 1266-1281: counts and sse_per_cluster of the labels
Counted(samples, centroids, labels, color_space) ==
  [centroids       |-> centroids,
   labels          |-> labels,
   counts          |-> Strict([c \in 1..Len(centroids) |-> CountLabel(labels, c - 1)]),
   sse_per_cluster |-> Strict([c \in 1..Len(centroids) |->
                                 SumWhere(samples, labels, centroids, color_space, c - 1)])]

\* the result without the re-assignment of lines 1261-1265
FinalAssign_KeepsLabels(samples, km, color_space) ==
  Counted(samples, km.centroids, km.labels, color_space)

\* lines 1261-1282: exact re-assignment, counts and sse_per_cluster
FinalAssign(samples, km, color_space) ==
  Counted(samples, km.centroids,
          Strict([i \in 1..Len(samples) |->
                    nearest_centroid_idx(samples[i], km.centroids, color_space)[1]]),
          color_space)

\* lines 1197 and 1256-1258: the loop runs until it breaks or remaining is 0
RECURSIVE LloydLoop(_, _, _, _)
LloydBreak(samples, next, color_space, remaining) ==
  IF next.stop THEN next ELSE LloydLoop(samples, next, color_space, remaining)

LloydLoop(samples, km, color_space, remaining) ==
  IF remaining = 0 THEN km
  ELSE LloydBreak(samples, LloydIteration(samples, km, color_space), color_space,
                  remaining - 1)

\* the early return without its second condition
KMeansReturnsEmpty_NoSamplesOnly(sample_count, initial_centroids) == sample_count = 0

\* line 1169: sample_count == 0 || initial_centroids.is_empty()
KMeansReturnsEmpty(sample_count, initial_centroids) ==
  sample_count = 0 \/ initial_centroids = <<>>

\* run_kmeans as a function, as the split trials call it
run_kmeans(samples, initial_centroids, max_iterations, color_space, seed) ==
  IF KMeansReturnsEmpty(Len(samples), initial_centroids) THEN EmptyResult
  ELSE FinalAssign(samples,
         LloydLoop(samples,
           KMeansEnter(samples, initial_centroids, color_space, seed),
           color_space, Max2(max_iterations, 1)),
         color_space)

(***************************************************************************)
(* Initializers.                                                           *)
(***************************************************************************)
RngRandomInit == <<4660, 43981, 30864, 61185>>  \* 0x1234_ABCD_7890_EF01
RngTopUp == <<21777, 52360, 8857, 43588>>       \* 0x5511_CC88_2299_AA44
RngSplitSample == <<56610, 21930, 30481, 52275>> \* 0xDD22_55AA_7711_CC33

\* line 1336: push the sample unless a centroid is nearly the same
RandomInitPush(centroids, sample) ==
  IF \E j \in 1..Len(centroids) : nearly_same_feature(centroids[j], sample)
  THEN centroids
  ELSE Append(centroids, sample)

\* lines 1334-1339: the body of the loop, for the index drawn
RandomInitDraw(samples, loop, g) ==
  [centroids |-> RandomInitPush(loop.centroids, sample_at(samples, g[1])),
   rng |-> g[2], attempts |-> loop.attempts + 1]

\* the condition of the loop without the cap on the attempts
RandomInitOpen_Uncapped(target_k, loop) == Len(loop.centroids) < target_k

\* line 1333: the condition of the loop
RandomInitOpen(target_k, loop) ==
  Len(loop.centroids) < target_k /\ loop.attempts < target_k * 16

\* one turn of the loop, if its condition holds
RandomInitTurn(samples, target_k, loop) ==
  IF RandomInitOpen(target_k, loop)
  THEN RandomInitDraw(samples, loop, Rng_gen_index(loop.rng, Len(samples)))
  ELSE loop

\* up to `turns` turns of the loop: the first half of them, then the rest
RECURSIVE RandomInitTurns(_, _, _, _)
RandomInitRest(samples, target_k, loop, turns) ==
  IF RandomInitOpen(target_k, loop)
  THEN RandomInitTurns(samples, target_k, loop, turns)
  ELSE loop

RandomInitTurns(samples, target_k, loop, turns) ==
  IF turns <= 1 THEN RandomInitTurn(samples, target_k, loop)
  ELSE RandomInitRest(samples, target_k,
         RandomInitTurns(samples, target_k, loop, turns \div 2),
         turns - turns \div 2)

\* lines 1333-1340: the rejection-sampling loop, which ends within
\* target_k * 16 turns
RandomInitLoop(samples, target_k, rng) ==
  RandomInitTurns(samples, target_k, [centroids |-> <<>>, rng |-> rng, attempts |-> 0],
                  target_k * 16).centroids

init_centroids_random(samples, target_k, seed) ==
  IF Len(samples) = 0 \/ target_k = 0 THEN <<>>
  ELSE OrFirstSample(samples,
         RandomInitLoop(samples, target_k, Rng_new(SeedXor(seed, RngRandomInit))))

\* lines 1559-1565: the first `taken` selected colours, encoded, with alpha 1
SelectedCentroids(settings, taken) ==
  [i \in 1..taken |->
     << settings.selected_colors[i][1], settings.selected_colors[i][2],
        settings.selected_colors[i][3], One >>]

\* lines 1567-1572: the random fallback
SelectedOrFallback(samples, taken, target_k, seed, centroids) ==
  IF taken < target_k
  THEN centroids \o init_centroids_random(samples, target_k - taken, seed)
  ELSE centroids

\* settings.selected_colors holds encode_feature(rgb, color_space) of each colour
SelectedTaken(samples, settings, target_k, seed, taken) ==
  SelectedOrFallback(samples, taken, target_k, seed, SelectedCentroids(settings, taken))

init_centroids_selected(samples, settings, target_k, seed) ==
  SelectedTaken(samples, settings, target_k, seed,
                Min2(Len(settings.selected_colors), Max2(target_k, 1)))

(***************************************************************************)
(* init_centroids_area_based.  An AreaGroup is its accumulator (the count  *)
(* of the group is the count of the accumulator, lines 2217-2220).  The    *)
(* stride of line 1505 is 1 for fewer than 100,000 samples.                *)
(***************************************************************************)
AREA_MAX_SAMPLES == 50000

\* threshold.max(0.0001).powi(2), in units of 1/One^2; 0.0001 is below 1/One
AreaThresholdSq(threshold) == Sq(threshold)

AreaGroup_new(sample) ==
  [sum0 |-> sample[1], sum1 |-> sample[2], sum2 |-> sample[3], sum3 |-> sample[4],
   count |-> 1]

AreaGroup_add(group, sample) ==
  [sum0 |-> group.sum0 + sample[1], sum1 |-> group.sum1 + sample[2],
   sum2 |-> group.sum2 + sample[3], sum3 |-> group.sum3 + sample[4],
   count |-> group.count + 1]

AreaCenters(groups) == Strict([g \in 1..Len(groups) |-> ClusterAccum_mean(groups[g])])

\* lines 1523-1531: the sample joins the nearest group or starts a group;
\* near is <<best_group, best_dist>> of lines 1515-1521
AreaPlace(groups, sample, near, threshold_sq) ==
  IF groups # <<>> /\ near[2] <= threshold_sq
  THEN [groups EXCEPT ![near[1] + 1] = AreaGroup_add(@, sample)]
  ELSE Append(groups, AreaGroup_new(sample))

\* lines 1510-1535: the visits lo..hi of the scan, visit i at sample i * step:
\* those of the first half, then the rest
RECURSIVE AreaScan(_, _, _, _, _, _, _)
\* the visits lo..hi, after the groups of the visits before them are known
AreaScanOn(samples, step, threshold_sq, color_space, lo, hi, groups) ==
  IF Len(groups) >= 0
  THEN AreaScan(samples, step, threshold_sq, color_space, lo, hi, groups)
  ELSE groups

AreaScan(samples, step, threshold_sq, color_space, lo, hi, groups) ==
  IF lo > hi THEN groups
  ELSE IF lo = hi
  THEN Strict(AreaPlace(groups, sample_at(samples, lo * step),
                        nearest_centroid_idx(sample_at(samples, lo * step),
                                             AreaCenters(groups), color_space),
                        threshold_sq))
  ELSE AreaScanOn(samples, step, threshold_sq, color_space, (lo + hi) \div 2 + 1, hi,
                  AreaScan(samples, step, threshold_sq, color_space, lo,
                           (lo + hi) \div 2, groups))

\* line 1510: the scan visits every step-th sample, AREA_MAX_SAMPLES at most
AreaVisits(sample_count, step) ==
  Min2((sample_count + step - 1) \div step, AREA_MAX_SAMPLES)

\* lines 1504-1535
AreaGroups(samples, step, threshold_sq, color_space) ==
  AreaScan(samples, step, threshold_sq, color_space, 0,
           AreaVisits(Len(samples), step) - 1, <<>>)

\* line 1537: the stable sort by count, largest first: the place of group g
AreaRank(groups, g) ==
  1 + Cardinality({h \in 1..Len(groups) :
                     \/ groups[h].count > groups[g].count
                     \/ groups[h].count = groups[g].count /\ h < g})

AreaSorted(groups) ==
  Strict([r \in 1..Len(groups) |->
            groups[CHOOSE g \in 1..Len(groups) : AreaRank(groups, g) = r]])

\* lines 1538-1547: the centres of the largest groups, and the random fallback
AreaTaken(samples, target_k, seed, centroids) ==
  IF Len(centroids) < target_k
  THEN centroids \o init_centroids_random(samples, target_k - Len(centroids), seed)
  ELSE centroids

AreaTop(samples, target_k, seed, sorted) ==
  AreaTaken(samples, target_k, seed,
            AreaCenters(SubSeq(sorted, 1, Min2(Len(sorted), target_k))))

init_centroids_area_based(samples, target_k, threshold, color_space, seed) ==
  IF Len(samples) = 0 \/ target_k = 0 THEN <<>>
  ELSE AreaTop(samples, target_k, seed,
               AreaSorted(AreaGroups(samples,
                                     Max2(Len(samples) \div Max2(AREA_MAX_SAMPLES, 1), 1),
                                     AreaThresholdSq(threshold), color_space)))

(***************************************************************************)
(* XorShift64::next_f64 is (next_u64() >> 11) / 2^53.  It is compared with *)
(* a quotient num / den of the exact values (0 <= num < den): bit m of the *)
(* 53 bits, from the highest down, against bit m of the binary expansion   *)
(* of the quotient.  The f64 rounding of the quotient is not modelled.     *)
(***************************************************************************)
RECURSIVE FracLess(_, _, _, _, _)
FracLess(bits, m, rem, den, or_equal) ==
  IF m > 53 THEN or_equal \/ rem > 0
  ELSE IF (2 * rem >= den) # bits[65 - m] THEN 2 * rem >= den
  ELSE FracLess(bits, m + 1, IF 2 * rem >= den THEN 2 * rem - den ELSE 2 * rem, den,
                or_equal)

\* next_f64 < (num / den).min(1.0), for the u64 x that next_u64 returned
F64Lt(x, num, den) ==
  IF num = 0 THEN FALSE
  ELSE IF num >= den THEN TRUE
  ELSE FracLess(BitsOf(x), 1, num, den, FALSE)

\* next_f64 * den - num <= 0
F64Le(x, num, den) ==
  IF num >= den THEN TRUE ELSE FracLess(BitsOf(x), 1, num, den, TRUE)

(***************************************************************************)
(* init_centroids_kmeans_parallel.                                         *)
(***************************************************************************)
RngKMeansParallel == <<47073, 20835, 39503, 11537>>  \* 0xB7E1_5163_9A4F_2D11

KMP_ROUNDS == 5

\* lines 1377-1381: sample idx (from one) becomes a candidate with
\* probability min(oversampling * nearest_d2 / phi, 1)
KmpDraw(samples, nearest_d2, oversampling, phi, st, idx, x) ==
  [candidates |-> IF F64Lt(x, oversampling * nearest_d2[idx], phi)
                  THEN Append(st.candidates, samples[idx])
                  ELSE st.candidates,
   rng |-> x]

\* the draws for samples lo..hi: those of the first half, then the rest
RECURSIVE KmpDraws(_, _, _, _, _, _, _)
\* the draws for samples lo..hi, after the draws before them are known
KmpDrawsOn(samples, nearest_d2, oversampling, phi, st, lo, hi) ==
  IF Len(st.candidates) >= 0 /\ Len(st.rng) = 4
  THEN KmpDraws(samples, nearest_d2, oversampling, phi, st, lo, hi)
  ELSE st

KmpDraws(samples, nearest_d2, oversampling, phi, st, lo, hi) ==
  IF lo > hi THEN st
  ELSE IF lo = hi
  THEN KmpDraw(samples, nearest_d2, oversampling, phi, st, lo, Rng_next_u64(st.rng))
  ELSE KmpDrawsOn(samples, nearest_d2, oversampling, phi,
                  KmpDraws(samples, nearest_d2, oversampling, phi, st, lo,
                           (lo + hi) \div 2),
                  (lo + hi) \div 2 + 1, hi)

\* lines 1383-1398: dedup, the break of line 1384, the distances brought down
KmpDeduped(samples, color_space, nearest_d2, candidates, rng) ==
  [candidates |-> candidates,
   rng        |-> rng,
   stopped    |-> Len(candidates) > MAX_CLUSTERS * 8,
   nearest_d2 |-> IF Len(candidates) > MAX_CLUSTERS * 8 THEN nearest_d2
                  ELSE Strict([i \in 1..Len(samples) |->
                         Min2(nearest_d2[i],
                              nearest_centroid_idx(samples[i], candidates,
                                                   color_space)[2])])]

KmpAfterDraws(samples, color_space, nearest_d2, drawn) ==
  KmpDeduped(samples, color_space, nearest_d2,
             dedup_centroids(drawn.candidates, color_space), drawn.rng)

\* lines 1370-1399: one round
KmpRound(samples, color_space, oversampling, st) ==
  IF st.stopped THEN st
  ELSE KmpAfterDraws(samples, color_space, st.nearest_d2,
                     KmpDraws(samples, st.nearest_d2, oversampling,
                              SumSeq(st.nearest_d2),
                              [candidates |-> st.candidates, rng |-> st.rng],
                              1, Len(samples)))

KmpTwoRounds(samples, color_space, oversampling, st) ==
  KmpRound(samples, color_space, oversampling,
           KmpRound(samples, color_space, oversampling, st))

\* the KMP_ROUNDS rounds of line 1370
KmpRounds(samples, color_space, oversampling, st) ==
  KmpRound(samples, color_space, oversampling,
           KmpTwoRounds(samples, color_space, oversampling,
                        KmpTwoRounds(samples, color_space, oversampling, st)))

\* lines 1359-1368: the first candidate and the distances to it
KmpStart(samples, color_space, g) ==
  [candidates |-> <<sample_at(samples, g[1])>>,
   rng        |-> g[2],
   stopped    |-> FALSE,
   nearest_d2 |-> Strict([i \in 1..Len(samples) |->
                    feature_distance_sq(samples[i], sample_at(samples, g[1]),
                                        color_space)])]

\* lines 2244-2252: the index at which the running weight passes r
RECURSIVE WeightedScan(_, _, _)
WeightedScan(weights, idx, r) ==
  IF idx >= Len(weights) THEN Max2(Len(weights) - 1, 0)
  ELSE IF r < weights[idx + 1] THEN idx
  ELSE WeightedScan(weights, idx + 1, r - weights[idx + 1])

\* weighted_pick_usize: <<index, new state>>, the index -1 for None
weighted_pick_usize(weights, rng) ==
  IF SumSeq(weights) = 0 THEN <<-1, rng>>
  ELSE << WeightedScan(weights, 0, U64Mod(Rng_next_u64(rng), SumSeq(weights))),
          Rng_next_u64(rng) >>

\* lines 1420-1425: how many samples have each candidate for their nearest
KmpWeights(samples, candidates, color_space) ==
  Strict([c \in 1..Len(candidates) |->
            Cardinality({i \in 1..Len(samples) :
                           nearest_centroid_idx(samples[i], candidates,
                                                color_space)[1] = c - 1})])

\* the candidates (from zero) that the selection may still score
KmpOpen(weights, sel) ==
  {idx \in 0..(Len(weights) - 1) : ~sel.mask[idx + 1] /\ weights[idx + 1] # 0}

\* lines 1440-1447: the sum of weight * distance over the open candidates
KmpScoreSum(weights, sel) ==
  SumSeq([c \in 1..Len(weights) |->
            IF c - 1 \in KmpOpen(weights, sel) THEN weights[c] * sel.d2[c] ELSE 0])

\* lines 1450-1453: the unchosen candidate of the largest weight, the last of
\* them among equals (Iterator::max_by_key), or first_idx when all are chosen
KmpMaxWeight(weights, sel, first_idx) ==
  IF \A c \in 1..Len(weights) : sel.mask[c] THEN first_idx
  ELSE CHOOSE i \in 0..(Len(weights) - 1) :
         /\ ~sel.mask[i + 1]
         /\ \A j \in 0..(Len(weights) - 1) :
              ~sel.mask[j + 1] =>
                \/ weights[j + 1] < weights[i + 1]
                \/ weights[j + 1] = weights[i + 1] /\ j <= i

\* the roulette that passes every candidate by
KmpRoulette_First(weights, sel, x, score_sum, idx, cum, first_idx) == first_idx

\* lines 1456-1465: the roulette from candidate idx on, cum the scores passed
RECURSIVE KmpRoulette(_, _, _, _, _, _, _)
KmpRoulette(weights, sel, x, score_sum, idx, cum, first_idx) ==
  IF idx >= Len(weights) THEN first_idx
  ELSE IF idx \notin KmpOpen(weights, sel)
  THEN KmpRoulette(weights, sel, x, score_sum, idx + 1, cum, first_idx)
  ELSE IF F64Le(x, cum + weights[idx + 1] * sel.d2[idx + 1], score_sum) THEN idx
  ELSE KmpRoulette(weights, sel, x, score_sum, idx + 1,
                   cum + weights[idx + 1] * sel.d2[idx + 1], first_idx)

\* lines 1469-1481: the candidate is chosen, unless it is chosen already
KmpTake(candidates, color_space, sel, next_idx, rng) ==
  IF sel.mask[next_idx + 1]
  THEN [sel EXCEPT !.rng = rng, !.stopped = TRUE]
  ELSE [chosen  |-> Append(sel.chosen, next_idx),
        mask    |-> [sel.mask EXCEPT ![next_idx + 1] = TRUE],
        d2      |-> Strict([c \in 1..Len(candidates) |->
                      Min2(sel.d2[c],
                           feature_distance_sq(candidates[c], candidates[next_idx + 1],
                                               color_space))]),
        rng     |-> rng,
        stopped |-> FALSE]

\* lines 1439-1467: the next candidate, for the score_sum of line 1440
KmpPick(candidates, weights, color_space, sel, first_idx, score_sum) ==
  IF score_sum = 0
  THEN KmpTake(candidates, color_space, sel, KmpMaxWeight(weights, sel, first_idx),
               sel.rng)
  ELSE KmpTake(candidates, color_space, sel,
               KmpRoulette(weights, sel, Rng_next_u64(sel.rng), score_sum, 0, 0,
                           first_idx),
               Rng_next_u64(sel.rng))

\* lines 1439-1482: the selection loop
RECURSIVE KmpSelect(_, _, _, _, _, _)
KmpSelect(candidates, weights, color_space, target_k, sel, first_idx) ==
  IF Len(sel.chosen) >= target_k \/ sel.stopped THEN sel
  ELSE KmpSelect(candidates, weights, color_space, target_k,
                 KmpPick(candidates, weights, color_space, sel, first_idx,
                         KmpScoreSum(weights, sel)),
                 first_idx)

\* lines 1427-1437: the first pick, by weight alone
KmpFirst(candidates, color_space, first_idx, rng) ==
  [chosen  |-> <<first_idx>>,
   mask    |-> [c \in 1..Len(candidates) |-> c = first_idx + 1],
   d2      |-> Strict([c \in 1..Len(candidates) |->
                 feature_distance_sq(candidates[c], candidates[first_idx + 1],
                                     color_space)]),
   rng     |-> rng,
   stopped |-> FALSE]

\* the candidate indices chosen, in order (lines 1420-1482)
KmpChosenFrom(candidates, weights, color_space, target_k, pick) ==
  KmpSelect(candidates, weights, color_space, target_k,
            KmpFirst(candidates, color_space, Max2(pick[1], 0), pick[2]),
            Max2(pick[1], 0)).chosen

KmpChosen(samples, candidates, color_space, target_k, rng) ==
  KmpChosenFrom(candidates, KmpWeights(samples, candidates, color_space), color_space,
                target_k,
                weighted_pick_usize(KmpWeights(samples, candidates, color_space), rng))

\* lines 1408-1416 and 1484-1490: the random fallback, truncate and dedup
KmpFilled(samples, target_k, color_space, seed, out) ==
  dedup_centroids(
    SubSeq(IF Len(out) < target_k
           THEN out \o init_centroids_random(samples, target_k - Len(out), seed)
           ELSE out,
           1, Min2(Len(IF Len(out) < target_k
                       THEN out \o init_centroids_random(samples, target_k - Len(out),
                                                          seed)
                       ELSE out),
                   target_k)),
    color_space)

\* lines 1403-1490, for the candidates that the rounds left
KmpFinish(samples, target_k, color_space, seed, st, candidates) ==
  IF candidates = <<>> THEN init_centroids_random(samples, target_k, seed)
  ELSE IF Len(candidates) <= target_k
  THEN KmpFilled(samples, target_k, color_space, seed, candidates)
  ELSE KmpFilled(samples, target_k, color_space, seed,
                 [j \in 1..Len(KmpChosen(samples, candidates, color_space, target_k,
                                         st.rng)) |->
                    candidates[KmpChosen(samples, candidates, color_space, target_k,
                                         st.rng)[j] + 1]])

KmpAfterRounds(samples, target_k, color_space, seed, st) ==
  KmpFinish(samples, target_k, color_space, seed, st,
            dedup_centroids(st.candidates, color_space))

init_centroids_kmeans_parallel(samples, target_k, color_space, seed) ==
  IF Len(samples) = 0 \/ target_k = 0 THEN <<>>
  ELSE IF target_k = 1
  THEN <<sample_at(samples, U64Mod(<<0, 0, seed[1], seed[2]>>, Len(samples)))>>
  ELSE KmpAfterRounds(samples, target_k, color_space, seed,
         KmpRounds(samples, color_space, Min2(Max2(target_k * 2, 2), 64),
                   KmpStart(samples, color_space,
                            Rng_gen_index(Rng_new(SeedXor(seed, RngKMeansParallel)),
                                          Len(samples)))))

\* the state after the rounds, for target_k >= 2 (lines 1362-1403)
KmpRan(samples, target_k, color_space, seed) ==
  KmpRounds(samples, color_space, Min2(Max2(target_k * 2, 2), 64),
            KmpStart(samples, color_space,
                     Rng_gen_index(Rng_new(SeedXor(seed, RngKMeansParallel)),
                                   Len(samples))))

\* the locals candidates (line 1405) and chosen (line 1480, as candidate
\* indices from zero; empty when the selection is not reached)
KmpLocalsOf(samples, target_k, color_space, st, candidates) ==
  [candidates |-> candidates,
   chosen     |-> IF Len(candidates) <= target_k THEN <<>>
                  ELSE KmpChosen(samples, candidates, color_space, target_k, st.rng)]

KmpLocalsAfter(samples, target_k, color_space, st) ==
  KmpLocalsOf(samples, target_k, color_space, st,
              dedup_centroids(st.candidates, color_space))

KmpLocals(samples, target_k, color_space, seed) ==
  IF Len(samples) = 0 \/ target_k <= 1 THEN [candidates |-> <<>>, chosen |-> <<>>]
  ELSE KmpLocalsAfter(samples, target_k, color_space,
                      KmpRan(samples, target_k, color_space, seed))

\* lines 1312-1318: top up with random samples
RECURSIVE TopUp(_, _, _, _)
TopUpDraw(samples, target_k, g, centroids) ==
  TopUp(samples, target_k, g[2], Append(centroids, sample_at(samples, g[1])))

TopUp(samples, target_k, rng, centroids) ==
  IF Len(centroids) < target_k
  THEN TopUpDraw(samples, target_k, Rng_gen_index(rng, Len(samples)), centroids)
  ELSE centroids

\* truncated, coincident centroids kept
Truncated_NoDedup(centroids, target_k, color_space) ==
  SubSeq(centroids, 1, Min2(Len(centroids), target_k))

\* truncated to the first centroid alone
Truncated_KeepsFirst(centroids, target_k, color_space) ==
  dedup_centroids(SubSeq(centroids, 1, Min2(Len(centroids), 1)), color_space)

\* lines 1320-1321: truncate and dedup
Truncated(centroids, target_k, color_space) ==
  dedup_centroids(SubSeq(centroids, 1, Min2(Len(centroids), target_k)), color_space)

\* lines 1295-1321, for the target_k of line 1293
InitialCentroids(samples, settings, target_k) ==
  Truncated(TopUp(samples, target_k, Rng_new(SeedXor(settings.seed, RngTopUp)),
                  CASE settings.init_method = "Random" ->
                         init_centroids_random(samples, target_k, settings.seed)
                    [] settings.init_method = "Area" ->
                         init_centroids_area_based(samples, target_k,
                                                   settings.area_similarity_threshold,
                                                   settings.color_space, settings.seed)
                    [] settings.init_method = "SelectedColors" ->
                         init_centroids_selected(samples, settings, target_k,
                                                 settings.seed)
                    [] settings.init_method = "KMeansParallel" ->
                         init_centroids_kmeans_parallel(samples, target_k,
                                                        settings.color_space,
                                                        settings.seed)),
            target_k, settings.color_space)

\* the initial centroids for the k the settings ask for, whatever the samples
build_initial_centroids_Requested(samples, settings, requested_k) ==
  IF Len(samples) = 0 \/ requested_k = 0 THEN <<>>
  ELSE InitialCentroids(samples, settings, settings.cluster_count)

build_initial_centroids(samples, settings, requested_k) ==
  IF Len(samples) = 0 \/ requested_k = 0 THEN <<>>
  ELSE InitialCentroids(samples, settings,
                        Min2(Min2(requested_k, Len(samples)), MAX_CLUSTERS))

\* the target without the lower limit of the clamp
target_k_for_kmeans_Unclamped(settings, pixel_count) ==
  Min2(Min2(settings.cluster_count, MAX_CLUSTERS), Max2(pixel_count, 1))

target_k_for_kmeans(settings, pixel_count) ==
  Min2(Min2(Max2(settings.cluster_count, 1), MAX_CLUSTERS), Max2(pixel_count, 1))

(***************************************************************************)
(* Split trials of run_xmeans and run_gmeans.                              *)
(***************************************************************************)
\* the member indices (0-based, ascending) of each cluster
build_cluster_indices(labels, cluster_count) ==
  Strict([c \in 1..cluster_count |->
     SelectSeq([i \in 1..Len(labels) |-> i - 1], LAMBDA idx : labels[idx + 1] = c - 1)])

\* lines 2021-2030: selection sampling of `limit` of the indices
RECURSIVE SplitSampleLoop(_, _, _, _, _, _)
\* the draw that leaves `remaining` as it was
SplitSampleDraw_KeepsRemaining(indices, i, g, remaining, need, out) ==
  IF g[1] < need
  THEN SplitSampleLoop(indices, i + 1, g[2], remaining, need - 1,
                       Append(out, indices[i]))
  ELSE SplitSampleLoop(indices, i + 1, g[2], remaining, need, out)

SplitSampleDraw(indices, i, g, remaining, need, out) ==
  IF g[1] < need
  THEN SplitSampleLoop(indices, i + 1, g[2], remaining - 1, need - 1,
                       Append(out, indices[i]))
  ELSE SplitSampleLoop(indices, i + 1, g[2], remaining - 1, need, out)

SplitSampleLoop(indices, i, rng, remaining, need, out) ==
  IF i > Len(indices) \/ need = 0 THEN out
  ELSE SplitSampleDraw(indices, i, Rng_gen_index(rng, remaining), remaining, need, out)

sample_indices_for_split(indices, limit, seed) ==
  IF Len(indices) <= limit THEN indices
  ELSE SplitSampleLoop(indices, 1, Rng_new(SeedXor(seed, RngSplitSample)),
                       Len(indices), limit, <<>>)

collect_subset_samples(samples, indices) ==
  Strict([i \in 1..Len(indices) |-> sample_at(samples, indices[i])])

wrap01(v) == v % One

\* lines 1950-1966: the mean square of the deviation along one channel
ChannelVariance(samples, indices, parent_centroid, color_space, ch) ==
  SumSeq([i \in 1..Len(indices) |->
            Sq(IF ch = 1
               THEN feature_delta(sample_at(samples, indices[i])[1], parent_centroid[1],
                                  color_space)
               ELSE sample_at(samples, indices[i])[ch] - parent_centroid[ch])])
    \div Max2(Len(indices), 1)

\* lines 1976-1997: the two seeds, delta either side of the parent along axis
SeedsAlong(parent_centroid, color_space, axis, delta) ==
  IF axis = 0 /\ has_circular_hue(color_space)
  THEN << [parent_centroid EXCEPT ![1] = wrap01(parent_centroid[1] - delta)],
          [parent_centroid EXCEPT ![1] = wrap01(parent_centroid[1] + delta)] >>
  ELSE << [parent_centroid EXCEPT ![axis + 1] = clamp01(parent_centroid[axis + 1] - delta)],
          [parent_centroid EXCEPT ![axis + 1] = clamp01(parent_centroid[axis + 1] + delta)] >>

\* line 1976: delta = (sigma * 0.5).clamp(0.01, 0.25)
SeedsAt(parent_centroid, color_space, axis, sigma) ==
  SeedsAlong(parent_centroid, color_space, axis,
             Min2(Max2(sigma \div 2, One \div 100), One \div 4))

\* lines 1968-1974: the axis of the largest variance
SeedsOf(parent_centroid, color_space, var0, var1, var2) ==
  IF var0 >= var1 /\ var0 >= var2 THEN SeedsAt(parent_centroid, color_space, 0, Sqrt(var0))
  ELSE IF var1 >= var2 THEN SeedsAt(parent_centroid, color_space, 1, Sqrt(var1))
  ELSE SeedsAt(parent_centroid, color_space, 2, Sqrt(var2))

make_split_seeds(samples, indices, parent_centroid, color_space) ==
  SeedsOf(parent_centroid, color_space,
          ChannelVariance(samples, indices, parent_centroid, color_space, 1),
          ChannelVariance(samples, indices, parent_centroid, color_space, 2),
          ChannelVariance(samples, indices, parent_centroid, color_space, 3))

estimate_two_centroid_sse(samples, indices, c1, c2, color_space) ==
  SumSeq([i \in 1..Len(indices) |->
            Min2(feature_distance_sq(sample_at(samples, indices[i]), c1, color_space),
                 feature_distance_sq(sample_at(samples, indices[i]), c2, color_space))])

(***************************************************************************)
(* bic_score(child, n, 2, 3) > bic_score(parent, n, 1, 3) + 0.5.  With     *)
(* variance v = max(sse / (n - k), 1e-12) this is                          *)
(*   1.5 n ln(v_parent / v_child) - 2 ln n > 0.5,                          *)
(* that is v_parent / v_child > exp((1 + 4 ln n) / (3 n)).  BicRatio holds *)
(* floor(16384 * exp((1 + 4 ln n) / (3 n))) for n = 3..65; the comparison  *)
(* is "accept", "reject", or "close" when the ratio lies within 1/16384 of *)
(* the threshold, where the f64 outcome is not settled by this arithmetic. *)
(***************************************************************************)
BicRatio ==
  << 29835, 28268, 26900, 25791, 24892, 24156, 23543, 23026, 22584, 22202, 21867,
     21573, 21311, 21077, 20866, 20675, 20501, 20341, 20195, 20061, 19936, 19821,
     19713, 19613, 19519, 19431, 19348, 19270, 19197, 19127, 19061, 18999, 18939,
     18883, 18829, 18778, 18729, 18682, 18637, 18595, 18553, 18514, 18476, 18440,
     18404, 18371, 18338, 18307, 18276, 18247, 18219, 18191, 18165, 18139, 18114,
     18090, 18067, 18044, 18022, 18001, 17980, 17960, 17940 >>

\* sse / dof <= 1e-12, for an sse in units of 1/One^2
VarianceAtFloor(sse, dof) == sse <= ((dof * One * One) \div 1000000) \div 1000000

\* floor(2^bits * rem / den) for 0 <= rem < den
RECURSIVE FracBits(_, _, _, _)
FracBits(rem, den, bits, acc) ==
  IF bits = 0 THEN acc
  ELSE IF 2 * rem >= den THEN FracBits(2 * rem - den, den, bits - 1, 2 * acc + 1)
       ELSE FracBits(2 * rem, den, bits - 1, 2 * acc)

\* num / den against BicRatio[n - 2] / 16384
RatioCompare(num, den, limit) ==
  IF num \div den >= 2 THEN "accept"
  ELSE IF (num \div den) * 16384 + FracBits(num % den, den, 14, 0) > limit THEN "accept"
  ELSE IF (num \div den) * 16384 + FracBits(num % den, den, 14, 0) < limit THEN "reject"
  ELSE "close"

BicCompare(parent_sse, child_sse, n) ==
  IF n - 2 > Len(BicRatio) THEN "close"
  ELSE IF VarianceAtFloor(parent_sse, n - 1) THEN "reject"
  ELSE IF VarianceAtFloor(child_sse, n - 2) THEN "accept"
  ELSE RatioCompare(parent_sse * (n - 2), child_sse * (n - 1), BicRatio[n - 2])

(***************************************************************************)
(* A split trial returns [kind, c1, c2, key]: kind "none" (the source's    *)
(* None), "some" (Some((c1, c2))), or "test": Some((c1, c2)) exactly when  *)
(* the floating-point test named by key comes out true.                    *)
(***************************************************************************)
NoSplit == [kind |-> "none", c1 |-> <<>>, c2 |-> <<>>, key |-> <<>>]

Verdict(verdict, c1, c2, key) ==
  IF verdict = "reject" THEN NoSplit
  ELSE [kind |-> IF verdict = "accept" THEN "some" ELSE "test",
        c1 |-> c1, c2 |-> c2, key |-> key]

\* lines 1095-1114, for the child_sse of line 1095
XMeansVerdict(n, parent_sse, child_sse, c1, c2) ==
  Verdict(IF n < 3 THEN "reject" ELSE BicCompare(parent_sse, child_sse, n),
          c1, c2, <<"bic", <<parent_sse, child_sse, n>> >>)

\* lines 1091-1114, for the result `local` of the trial's run_kmeans
XMeansLocal(samples, indices, parent_sse, color_space, local) ==
  IF Len(local.centroids) # 2 \/ \E c \in 1..Len(local.counts) : local.counts[c] = 0
  THEN NoSplit
  ELSE XMeansVerdict(Len(indices), parent_sse,
                     estimate_two_centroid_sse(samples, indices, local.centroids[1],
                                               local.centroids[2], color_space),
                     local.centroids[1], local.centroids[2])

\* lines 1083-1090: the trial's run_kmeans on the subset, from the two seeds
TrialKMeans(subset, seeds, settings, seed) ==
  run_kmeans(subset, <<seeds[1], seeds[2]>>, Min2(settings.max_iterations, 20),
             settings.color_space, seed)

\* lines 1077-1114, for the sampled indices of line 1076
XMeansSampled(samples, indices, sampled, parent_centroid, parent_sse, settings, seed) ==
  XMeansLocal(samples, indices, parent_sse, settings.color_space,
              TrialKMeans(collect_subset_samples(samples, sampled),
                          make_split_seeds(samples, sampled, parent_centroid,
                                           settings.color_space),
                          settings, seed))

split_cluster_xmeans(samples, indices, parent_centroid, parent_sse, settings, seed) ==
  XMeansSampled(samples, indices,
                sample_indices_for_split(indices, SPLIT_DECISION_MAX_SAMPLES, seed),
                parent_centroid, parent_sse, settings, seed)

\* lines 2102-2110: the projections on the unit axis (ux, uy, uz)
Projected(subset, parent_centroid, color_space, axis0, axis1, axis2, axis_norm) ==
  IF axis_norm = 0 THEN <<>>
  ELSE Strict([i \in 1..Len(subset) |->
         ( feature_delta(subset[i][1], parent_centroid[1], color_space) * axis0
           + (subset[i][2] - parent_centroid[2]) * axis1
           + (subset[i][3] - parent_centroid[3]) * axis2 ) \div axis_norm])

\* lines 2092-2110, for the axis of lines 2088-2090
ProjectedOn(subset, parent_centroid, color_space, axis0, axis1, axis2) ==
  Projected(subset, parent_centroid, color_space, axis0, axis1, axis2,
            Sqrt(Sq(axis0) + Sq(axis1) + Sq(axis2)))

build_split_projections(subset, parent_centroid, child_a, child_b, color_space) ==
  ProjectedOn(subset, parent_centroid, color_space,
              feature_delta(child_b[1], child_a[1], color_space),
              child_b[2] - child_a[2], child_b[3] - child_a[3])

(***************************************************************************)
(* jarque_bera_p_value(projections) < alpha.  The p-value is exp(-jb / 2), *)
(* so the test is jb > -2 ln(alpha), and with jb = n/6 (S^2 + (K - 3)^2/4) *)
(* it is 4 S^2 + (K - 3)^2 > -48 ln(alpha) / n.  S and K do not change     *)
(* when the deviations are scaled, so they are computed from the integers  *)
(* e_i = (n v_i - sum v) / gcd: S^2 = n M3^2 / M2^3 and K = n M4 / M2^2    *)
(* for the power sums M2, M3, M4 of the e_i.  The comparison is made on    *)
(* lower and upper bounds in units of 1e-6 and is "close" when the bounds  *)
(* do not settle it (or the numbers leave the range computed here).        *)
(***************************************************************************)
RECURSIVE Gcd(_, _)
Gcd(a, b) == IF b = 0 THEN a ELSE Gcd(b, a % b)

RECURSIVE GcdRange(_, _, _)
GcdRange(s, lo, hi) ==
  IF lo > hi THEN 0
  ELSE IF lo = hi THEN Abs(s[lo])
  ELSE Gcd(GcdRange(s, lo, (lo + hi) \div 2), GcdRange(s, (lo + hi) \div 2 + 1, hi))

GcdSeq(s) == GcdRange(s, 1, Len(s))

\* floor(-48 ln(alpha) * 1e6 / n) for gmeans_alpha = 0.05 (500 in units of 1e-4)
JbLimit(n) == 143795149 \div n

\* 4 S^2 + (K - 3)^2 > limit, from bounds on S^2 (1e-6) and K (1e-3)
JbDecide(S2lo, S2hi, Klo, Khi, limit) ==
  IF Klo > 30000 THEN "accept"
  ELSE IF 4 * S2lo + Sq(IF Klo > 3000 THEN Klo - 3000
                        ELSE IF Khi < 3000 THEN 3000 - Khi ELSE 0) > limit + 1
  THEN "accept"
  ELSE IF 4 * S2hi + Sq(Max2(Abs(Klo - 3000), Abs(Khi - 3000))) < limit THEN "reject"
  ELSE "close"

\* R3 = floor(1000 M3 / M2), Q = floor(1000 n M4 / M2)
JbBounds(n, M2, R3, Q) ==
  JbDecide((Sq(R3) \div M2) * n, ((Sq(R3 + 1) \div M2) + 1) * n,
           Q \div M2, (Q + 1) \div M2 + 1, JbLimit(n))

JbMoments(n, M2, M3, M4) ==
  JbBounds(n, M2, (M3 * 1000) \div M2,
           ((n * M4) \div M2) * 1000 + (((n * M4) % M2) * 1000) \div M2)

\* e: the deviations from the mean, scaled to integers without a common factor
JbScaled(e) ==
  IF \E i \in 1..Len(e) : Abs(e[i]) > 15 THEN "close"
  ELSE JbMoments(Len(e),
                 SumSeq([i \in 1..Len(e) |-> Sq(e[i])]),
                 Abs(SumSeq([i \in 1..Len(e) |-> Sq(e[i]) * e[i]])),
                 SumSeq([i \in 1..Len(e) |-> Sq(Sq(e[i]))]))

JbDeviations(dev, g, alpha) ==
  IF g = 0 THEN "reject"
  ELSE IF alpha # 500 \/ Len(dev) > 64 THEN "close"
  ELSE JbScaled(Strict([i \in 1..Len(dev) |-> dev[i] \div g]))

JbCentred(dev, alpha) == JbDeviations(dev, GcdSeq(dev), alpha)

JbTotal(projections, total, alpha) ==
  JbCentred(Strict([i \in 1..Len(projections) |->
                      Len(projections) * projections[i] - total]), alpha)

\* p = 1.0 for fewer than 8 values and for a variance <= 1e-18 (all values equal)
JarqueBeraCompare(projections, alpha) ==
  IF Len(projections) < 8 THEN "reject"
  ELSE JbTotal(projections, SumSeq(projections), alpha)

\* lines 1150-1159, for the projections of line 1143
GMeansVerdict(projections, alpha, c1, c2) ==
  Verdict(IF Len(projections) < 8 THEN "reject"
          ELSE JarqueBeraCompare(projections, alpha),
          c1, c2, <<"jb", projections \o <<alpha>> >>)

\* the trial going on to the normality test whatever the sizes of the children
GMeansLocal_TestsAny(subset, parent_centroid, settings, local) ==
  IF Len(local.centroids) # 2
  THEN NoSplit
  ELSE GMeansVerdict(build_split_projections(subset, parent_centroid,
                                             local.centroids[1], local.centroids[2],
                                             settings.color_space),
                     settings.gmeans_alpha, local.centroids[1], local.centroids[2])

\* lines 1139-1159, for the result `local` of the trial's run_kmeans
GMeansLocal(subset, parent_centroid, settings, local) ==
  IF Len(local.centroids) # 2 \/ \E c \in 1..Len(local.counts) : local.counts[c] < 2
  THEN NoSplit
  ELSE GMeansVerdict(build_split_projections(subset, parent_centroid,
                                             local.centroids[1], local.centroids[2],
                                             settings.color_space),
                     settings.gmeans_alpha, local.centroids[1], local.centroids[2])

\* lines 1132-1159, for the subset and the seeds of lines 1125-1131
GMeansSubset(subset, seeds, parent_centroid, settings, seed) ==
  GMeansLocal(subset, parent_centroid, settings,
              TrialKMeans(subset, seeds, settings, seed))

GMeansSampled(samples, sampled, parent_centroid, settings, seed) ==
  GMeansSubset(collect_subset_samples(samples, sampled),
               make_split_seeds(samples, sampled, parent_centroid, settings.color_space),
               parent_centroid, settings, seed)

split_cluster_gmeans(samples, indices, parent_centroid, settings, seed) ==
  GMeansSampled(samples,
                sample_indices_for_split(indices, SPLIT_DECISION_MAX_SAMPLES, seed),
                parent_centroid, settings, seed)

(***************************************************************************)
(* One pass over the clusters in run_xmeans / run_gmeans (lines 932-955,   *)
(* 1021-1043).  trials[c] is the outcome of the split trial of cluster c   *)
(* (computed only for the clusters the loop tries), tests the outcome of   *)
(* the floating-point tests the arithmetic here leaves open.               *)
(***************************************************************************)
TrialSays(trial, tests) ==
  IF trial.kind = "some" THEN TRUE
  ELSE IF trial.kind = "test" THEN tests[trial.key]
  ELSE FALSE

RECURSIVE SplitPass(_, _, _, _, _, _, _, _)
SplitPass(parents, clusters, trials, tests, min_size, auto_max, cluster_idx, acc) ==
  IF cluster_idx >= Len(parents) THEN acc
  ELSE IF Len(clusters[cluster_idx + 1]) < min_size
            \/ Len(acc.next_centroids) + 1 > auto_max
       THEN SplitPass(parents, clusters, trials, tests, min_size, auto_max,
                      cluster_idx + 1,
                      [acc EXCEPT !.next_centroids = Append(@, parents[cluster_idx + 1])])
       ELSE IF TrialSays(trials[cluster_idx + 1], tests)
                 /\ Len(acc.next_centroids) + 2 <= auto_max
            THEN SplitPass(parents, clusters, trials, tests, min_size, auto_max,
                           cluster_idx + 1,
                           [next_centroids |-> acc.next_centroids
                                                 \o << trials[cluster_idx + 1].c1,
                                                       trials[cluster_idx + 1].c2 >>,
                            split_count |-> acc.split_count + 1])
            ELSE SplitPass(parents, clusters, trials, tests, min_size, auto_max,
                           cluster_idx + 1,
                           [acc EXCEPT !.next_centroids = Append(@, parents[cluster_idx + 1])])

\* the trials of one x-means round; round is the counter after `round += 17`
XMeansTrials(smp, res, st, round, clusters) ==
  Strict([c \in 1..Len(res.centroids) |->
            IF Len(clusters[c]) < 8 THEN NoSplit
            ELSE split_cluster_xmeans(smp, clusters[c], res.centroids[c],
                                      res.sse_per_cluster[c], st,
                                      WrappingAdd(st.seed, U32((c - 1) * 97 + round)))])

\* the trials of one g-means round; round is the counter after `round += 31`
GMeansTrials(smp, res, st, round, clusters) ==
  Strict([c \in 1..Len(res.centroids) |->
            IF Len(clusters[c]) < 10 THEN NoSplit
            ELSE split_cluster_gmeans(smp, clusters[c], res.centroids[c], st,
                                      WrappingAdd(st.seed, U32((c - 1) * 131 + round)))])

\* the tests among the trials whose outcome is not recorded yet
OpenTests(trials, known) ==
  {trials[c].key : c \in {d \in 1..Len(trials) : trials[d].kind = "test"}}
    \ DOMAIN known

(***************************************************************************)
(* The state.  One invocation of run_cluster_method (or, in SpecApi, of    *)
(* run_kmeans itself) runs from pc = "call" to pc = "done"; a second       *)
(* invocation on the same inputs follows.                                  *)
(*   samples, settings  the arguments of the invocation                    *)
(*   call               the function invoked, and for run_kmeans its       *)
(*                      initial centroid list                              *)
(*   arg                the arguments of the run_kmeans call in progress   *)
(*                      and where it returns to                            *)
(*   km                 the locals of that run_kmeans call                 *)
(*   result             the ClusterResult last returned by run_kmeans, at  *)
(*                      pc = "done" the result of the invocation           *)
(*   round, centroids   the locals of run_xmeans / run_gmeans              *)
(*   tests              the outcomes of the floating-point tests that the  *)
(*                      integer arithmetic leaves open, once taken         *)
(*   invocation, first_result   the invocation running, the first result   *)
(*   loop_labels        the labels run_kmeans held when its loop ended     *)
(*   handed             the sizes of the centroid sets run_xmeans /        *)
(*                      run_gmeans handed to run_kmeans, in order          *)
(***************************************************************************)
VARIABLES samples, settings, call, pc, arg, km, result, round, centroids,
          tests, invocation, first_result, loop_labels, handed

vars == << samples, settings, call, pc, arg, km, result, round, centroids,
           tests, invocation, first_result, loop_labels, handed >>

NoArg == [centroids |-> <<>>, seed |-> U32(0), ret |-> "return"]

NoFrame == [centroids |-> <<>>, labels |-> <<>>, upper |-> <<>>, lower |-> <<>>,
            rng |-> <<0, 0, 0, 0>>, iterations |-> 0, stop |-> FALSE]

\* x-means started at one centroid, as g-means is
StartCentroids_FromOne(smp, st) ==
  OrFirstSample(smp,
    build_initial_centroids(smp, st,
      Max2(Min2(Min2(IF st.init_method = "SelectedColors"
                     THEN Max2(Len(st.selected_colors), 1)
                     ELSE 1,
                     st.auto_max_clusters),
                Len(smp)),
           1)))

\* lines 902-912 and 991-1001: the centroids of the first round
StartCentroids(smp, st) ==
  OrFirstSample(smp,
    build_initial_centroids(smp, st,
      Max2(Min2(Min2(IF st.init_method = "SelectedColors"
                     THEN Max2(Len(st.selected_colors), 1)
                     ELSE IF st.cluster_method = "XMeans" THEN 2 ELSE 1,
                     st.auto_max_clusters),
                Len(smp)),
           1)))

\* run_cluster_method, or run_kmeans called directly, up to its first run_kmeans
Dispatch ==
  /\ pc = "call"
  /\ IF call.fn = "run_kmeans"
     THEN /\ arg' = [centroids |-> call.initial, seed |-> settings.seed,
                     ret |-> "return"]
          /\ pc' = "km_call"
          /\ UNCHANGED << result, round, centroids, handed >>
     ELSE IF settings.cluster_method = "KMeans"
     THEN /\ arg' = [centroids |->
                       build_initial_centroids(samples, settings,
                         target_k_for_kmeans(settings, Len(samples))),
                     seed |-> settings.seed, ret |-> "return"]
          /\ pc' = "km_call"
          /\ UNCHANGED << result, round, centroids, handed >>
     ELSE IF Len(samples) = 0
     THEN /\ result' = EmptyResult
          /\ pc' = "done"
          /\ UNCHANGED << arg, round, centroids, handed >>
     ELSE /\ centroids' = StartCentroids(samples, settings)
          /\ round' = 0
          /\ arg' = [centroids |-> centroids', seed |-> WrappingAdd(settings.seed, U32(0)),
                     ret |-> "round"]
          /\ handed' = << Len(centroids') >>
          /\ pc' = "km_call"
          /\ UNCHANGED result
  /\ UNCHANGED << samples, settings, call, km, tests, invocation, first_result,
                  loop_labels >>

\* run_kmeans going on with the generator of the call before
KMeansCall_KeepsGenerator ==
  /\ pc = "km_call"
  /\ IF KMeansReturnsEmpty(Len(samples), arg.centroids)
     THEN /\ result' = EmptyResult
          /\ pc' = "km_ret"
          /\ UNCHANGED km
     ELSE /\ km' = [KMeansEnter(samples, arg.centroids, settings.color_space, arg.seed)
                      EXCEPT !.rng = IF km = NoFrame THEN @ ELSE km.rng]
          /\ pc' = "km_loop"
          /\ UNCHANGED result
  /\ UNCHANGED << samples, settings, call, arg, round, centroids, tests, invocation,
                  first_result, loop_labels, handed >>

\* run_kmeans, lines 1168-1195
KMeansCall ==
  /\ pc = "km_call"
  /\ IF KMeansReturnsEmpty(Len(samples), arg.centroids)
     THEN /\ result' = EmptyResult
          /\ pc' = "km_ret"
          /\ UNCHANGED km
     ELSE /\ km' = KMeansEnter(samples, arg.centroids, settings.color_space, arg.seed)
          /\ pc' = "km_loop"
          /\ UNCHANGED result
  /\ UNCHANGED << samples, settings, call, arg, round, centroids, tests, invocation,
                  first_result, loop_labels, handed >>

\* run_kmeans, lines 1197-1259: one iteration of the loop
LloydStep ==
  /\ pc = "km_loop"
  /\ km' = LloydIteration(samples, km, settings.color_space)
  /\ pc' = IF km'.stop \/ km'.iterations >= Max2(settings.max_iterations, 1)
           THEN "km_final" ELSE "km_loop"
  /\ UNCHANGED << samples, settings, call, arg, result, round, centroids, tests,
                  invocation, first_result, loop_labels, handed >>

\* run_kmeans, lines 1261-1282
FinalPass ==
  /\ pc = "km_final"
  /\ result' = FinalAssign(samples, km, settings.color_space)
  /\ loop_labels' = km.labels
  /\ pc' = "km_ret"
  /\ UNCHANGED << samples, settings, call, arg, km, round, centroids, tests,
                  invocation, first_result, handed >>

\* the caller returns what run_kmeans returned
Return ==
  /\ pc = "km_ret"
  /\ arg.ret = "return"
  /\ pc' = "done"
  /\ UNCHANGED << samples, settings, call, arg, km, result, round, centroids, tests,
                  invocation, first_result, loop_labels, handed >>
\* the final call at the ceiling started from the centroids of the round
NextCall_FromRound(pass, deduped, new_round, seed_unsplit, seed_capped) ==
  IF pass.split_count = 0 \/ Len(pass.next_centroids) = Len(centroids)
  THEN [centroids |-> result.centroids,
        seed |-> WrappingAdd(settings.seed, seed_unsplit), ret |-> "return"]
  ELSE IF Len(deduped) >= settings.auto_max_clusters
  THEN [centroids |-> result.centroids,
        seed |-> WrappingAdd(settings.seed, seed_capped), ret |-> "return"]
  ELSE [centroids |-> deduped,
        seed |-> WrappingAdd(settings.seed, U32(new_round)), ret |-> "round"]

\* another round also at the ceiling
NextCall_GoesOn(pass, deduped, new_round, seed_unsplit, seed_capped) ==
  IF pass.split_count = 0 \/ Len(pass.next_centroids) = Len(centroids)
  THEN [centroids |-> result.centroids,
        seed |-> WrappingAdd(settings.seed, seed_unsplit), ret |-> "return"]
  ELSE [centroids |-> deduped,
        seed |-> WrappingAdd(settings.seed, U32(new_round)), ret |-> "round"]

\* lines 957-976 (and 1045-1064): the run_kmeans call that follows the pass
NextCall(pass, deduped, new_round, seed_unsplit, seed_capped) ==
  IF pass.split_count = 0 \/ Len(pass.next_centroids) = Len(centroids)
  THEN [centroids |-> result.centroids,
        seed |-> WrappingAdd(settings.seed, seed_unsplit), ret |-> "return"]
  ELSE IF Len(deduped) >= settings.auto_max_clusters
  THEN [centroids |-> deduped,
        seed |-> WrappingAdd(settings.seed, seed_capped), ret |-> "return"]
  ELSE [centroids |-> deduped,
        seed |-> WrappingAdd(settings.seed, U32(new_round)), ret |-> "round"]

AfterPass(pass, next) ==
  /\ arg' = next
  /\ centroids' = IF pass.split_count = 0 \/ Len(pass.next_centroids) = Len(centroids)
                  THEN centroids ELSE next.centroids
  /\ handed' = Append(handed, Len(next.centroids))

PassDone(pass, new_round, seed_unsplit, seed_capped) ==
  AfterPass(pass,
            NextCall(pass, dedup_centroids(pass.next_centroids, settings.color_space),
                     new_round, seed_unsplit, seed_capped))

TestsKnown(clusters, trials, known, min_size, new_round, seed_unsplit, seed_capped) ==
  /\ tests' = known
  /\ PassDone(SplitPass(result.centroids, clusters, trials, known, min_size,
                        settings.auto_max_clusters, 0,
                        [next_centroids |-> <<>>, split_count |-> 0]),
              new_round, seed_unsplit, seed_capped)

\* lines 923-977 (and 1012-1065): what a round does with the result of its
\* run_kmeans; new_round is the counter after the round's increment
RoundStep(clusters, trials, min_size, new_round, seed_unsplit, seed_capped) ==
  /\ round' = new_round
  /\ IF result.centroids = <<>>
     THEN /\ pc' = "done"
          /\ UNCHANGED << arg, centroids, tests, handed >>
     ELSE /\ pc' = "km_call"
          /\ \E taken \in [OpenTests(trials, tests) -> BOOLEAN] :
               TestsKnown(clusters, trials,
                          [key \in DOMAIN tests \cup DOMAIN taken |->
                             IF key \in DOMAIN tests THEN tests[key] ELSE taken[key]],
                          min_size, new_round, seed_unsplit, seed_capped)

XMeansPass(clusters) ==
  RoundStep(clusters, XMeansTrials(samples, result, settings, round + 17, clusters), 8,
            round + 17, <<42330, 23205>>, <<4556, 8925>>)

GMeansPass(clusters) ==
  RoundStep(clusters, GMeansTrials(samples, result, settings, round + 31, clusters), 10,
            round + 31, <<30685, 13243>>, <<23130, 8942>>)

\* run_xmeans, lines 923-977; the seeds are 0xA55A_5AA5 and 0x11CC_22DD
XMeansRound ==
  /\ pc = "km_ret"
  /\ arg.ret = "round"
  /\ settings.cluster_method = "XMeans"
  /\ XMeansPass(build_cluster_indices(result.labels, Len(result.centroids)))
  /\ UNCHANGED << samples, settings, call, km, result, invocation, first_result,
                  loop_labels >>

\* run_gmeans, lines 1012-1065; the seeds are 0x77DD_33BB and 0x5A5A_22EE
GMeansRound ==
  /\ pc = "km_ret"
  /\ arg.ret = "round"
  /\ settings.cluster_method = "GMeans"
  /\ GMeansPass(build_cluster_indices(result.labels, Len(result.centroids)))
  /\ UNCHANGED << samples, settings, call, km, result, invocation, first_result,
                  loop_labels >>

\* the same function is invoked again on the same samples and settings
Reinvoke ==
  /\ pc = "done"
  /\ invocation = 1
  /\ invocation' = 2
  /\ first_result' = result
  /\ pc' = "call"
  /\ UNCHANGED << samples, settings, call, arg, km, result, round, centroids, tests,
                  loop_labels, handed >>

Next ==
  \/ Dispatch
  \/ KMeansCall
  \/ LloydStep
  \/ FinalPass
  \/ Return
  \/ XMeansRound
  \/ GMeansRound
  \/ Reinvoke

(***************************************************************************)
(* Inputs.  A sample array is a sequence of blocks of Mult equal samples   *)
(* of the AlphaOnly colour space, <<alpha, 0, 0, alpha>> (lines 1659-1666).*)
(***************************************************************************)
MaxBlocks == 3

Levels == {0, 300, One}

AlphaSample(a) == <<a, 0, 0, a>>

RECURSIVE Arrays(_)
Arrays(blocks) ==
  IF blocks = 0 THEN {<<>>}
  ELSE {<<a>> \o rest : a \in Levels, rest \in Arrays(blocks - 1)}

BlockArrays(mult) ==
  {Strict([i \in 1..(Len(b) * mult) |-> AlphaSample(b[((i - 1) \div mult) + 1])]) :
     b \in UNION {Arrays(n) : n \in 0..MaxBlocks}}

\* the eight colour parameters, as features: the listed ones, then black
ColorParams(features) ==
  [i \in 1..MAX_SELECTED_COLORS |->
     IF i <= Len(features) THEN <<features[i], 0, 0>> ELSE <<0, 0, 0>>]

\* read_settings, lines 811-863, on the parameter values ui; the lower limit
\* 0.0001 of the area threshold (line 858) is below 1/One, and the thresholds
\* read are positive
read_settings(ui, pixel_count) ==
  [cluster_method    |-> ui.cluster_method,
   cluster_count     |-> Min2(Min2(Max2(ui.colors, 2), MAX_CLUSTERS), Max2(pixel_count, 1)),
   auto_max_clusters |-> Min2(Min2(Max2(ui.auto_max_clusters, 2), MAX_CLUSTERS),
                              Max2(pixel_count, 1)),
   max_iterations    |-> Max2(ui.max_iterations, 1),
   seed              |-> U32(Max2(ui.seed, 0)),
   color_space       |-> ui.color_space,
   init_method       |-> ui.init_method,
   selected_colors   |-> SubSeq(ui.selected_colors, 1,
                                Min2(Max2(ui.selected_count, 1), MAX_SELECTED_COLORS)),
   gmeans_alpha      |-> Min2(Max2(ui.gmeans_alpha, 1), 5000),
   area_similarity_threshold |-> Min2(Max2(ui.area_similarity_threshold, 1), One)]

\* the colour choices of the SelectedColors runs (Random runs keep the first)
Palettes == { <<150>>, <<150, One>>, <<0, 300>> }

UiChoices ==
  { [cluster_method |-> m, colors |-> c, auto_max_clusters |-> a, max_iterations |-> it,
     seed |-> 1, color_space |-> "AlphaOnly", init_method |-> im,
     selected_count |-> Len(p), selected_colors |-> ColorParams(p),
     gmeans_alpha |-> 500, area_similarity_threshold |-> 300] :
      m \in {"KMeans", "XMeans", "GMeans"}, c \in {1, 3}, a \in {2, 3}, it \in {0, 16},
      im \in {"Random", "SelectedColors", "Area", "KMeansParallel"}, p \in Palettes }

\* the parameters that the chosen method and initializer read
UiRead(ui) ==
  /\ ui.cluster_method = "KMeans" => ui.auto_max_clusters = 2
  /\ ui.cluster_method # "KMeans" => ui.colors = 3 /\ ui.max_iterations = 16
  /\ ui.init_method # "SelectedColors" => ui.selected_count = 1

\* a block is one sample for k-means and as large as the smallest cluster that
\* x-means (8) or g-means (10, and 36 samples for the normality test to fail)
\* may split
Mult(method) == IF method = "KMeans" THEN 1 ELSE IF method = "XMeans" THEN 8 ELSE 20

StartOf(smp, st, c) ==
  /\ samples = smp
  /\ settings = st
  /\ call = c
  /\ pc = "call"
  /\ arg = NoArg
  /\ km = NoFrame
  /\ result = EmptyResult
  /\ round = 0
  /\ centroids = <<>>
  /\ tests = <<>>
  /\ invocation = 1
  /\ first_result = EmptyResult
  /\ loop_labels = <<>>
  /\ handed = <<>>

\* a frame of eleven pixels of alpha 0 and one pixel of alpha 1
OutlierFrame ==
  Strict([i \in 1..12 |-> AlphaSample(IF i = 12 THEN One ELSE 0)])

\* the frames rendered: the block arrays and, for x-means and g-means, the
\* frame with one pixel apart
Frames(method) ==
  (BlockArrays(Mult(method)) \ {<<>>})
    \cup (IF method = "KMeans" THEN {} ELSE {OutlierFrame})

\* every sample of the frame has the same features
OneColour(smp) == \A i \in 1..Len(smp) : smp[i] = smp[1]

\* the frames rendered with an initializer: the Area and k-means||
\* initializers start on the frames of one colour
FramesOf(ui) ==
  IF ui.init_method \in {"Area", "KMeansParallel"}
  THEN {smp \in Frames(ui.cluster_method) : OneColour(smp)}
  ELSE Frames(ui.cluster_method)

\* a render: the settings read from the parameters, a frame of at least one pixel
Init ==
  \E ui \in {u \in UiChoices : UiRead(u)} :
    \E smp \in FramesOf(ui) :
      StartOf(smp, read_settings(ui, Len(smp)),
              [fn |-> "run_cluster_method", initial |-> <<>>])

Spec == Init /\ [][Next]_vars

\* a step of Next is enabled: every pc but "done" has its action, and at
\* "done" the second invocation is still to come
Running == pc # "done" \/ invocation = 1

\* The render runs on: straight-line code on one thread, no step of which
\* waits for another.  This is weak fairness of Next, WF_vars(Next), written
\* out with the enabling condition of Next as the state predicate Running.
RunsOn == []<>(~Running) \/ []<><<Next>>_vars

SpecLive == Init /\ [][Next]_vars /\ RunsOn

(***************************************************************************)
(* The engine's functions called with any arguments their types allow:     *)
(* run_kmeans with an initial centroid list of the caller's, and           *)
(* run_cluster_method with settings that read_settings has not clamped,    *)
(* on sample arrays that may be empty.                                     *)
(***************************************************************************)
ApiInitials ==
  { <<>>, << <<150, 0, 0, One>> >>, << <<0, 0, 0, One>>, <<One, 0, 0, One>> >>,
    << <<150, 0, 0, One>>, <<150, 0, 0, One>> >> }

ApiSettings ==
  { [cluster_method |-> m, cluster_count |-> c, auto_max_clusters |-> a,
     max_iterations |-> it, seed |-> U32(1), color_space |-> "AlphaOnly",
     init_method |-> im, selected_colors |-> SubSeq(ColorParams(<<150, One>>), 1, 2),
     gmeans_alpha |-> 500] :
      m \in {"KMeans", "XMeans", "GMeans"}, c \in {0, 2}, a \in {0, 2}, it \in {0, 16},
      im \in {"Random", "SelectedColors"} }

\* the settings that the function called reads
ApiRead(fn, st) ==
  /\ fn = "run_kmeans" =>
       st.cluster_method = "KMeans" /\ st.cluster_count = 2 /\ st.init_method = "Random"
  /\ fn = "run_kmeans" \/ st.cluster_method = "KMeans" => st.auto_max_clusters = 2
  /\ fn # "run_kmeans" => st.max_iterations = 16
  /\ st.cluster_method # "KMeans" => st.cluster_count = 2

\* the pixels black, white, red and cyan with alpha 1, encoded in LinearRgb
\* (lines 1653-1670; sRGB 0 and 1 are linear 0 and 1)
SceneSamples ==
  << <<0, 0, 0, One>>, <<One, One, One, One>>, <<One, 0, 0, One>>, <<0, One, One, One>> >>

\* KMeans, k = 2, Random init, seed 1, 16 iterations on these samples
SceneSettings ==
  [cluster_method |-> "KMeans", cluster_count |-> 2, auto_max_clusters |-> 2,
   max_iterations |-> 16, seed |-> U32(1), color_space |-> "LinearRgb",
   init_method |-> "Random", selected_colors |-> SubSeq(ColorParams(<<150>>), 1, 1),
   gmeans_alpha |-> 500]

\* what init_centroids_random may return here: two distinct samples
ScenePicks ==
  { << SceneSamples[p[1]], SceneSamples[p[2]] >> :
      p \in {q \in (1..4) \X (1..4) : q[1] # q[2]} }

\* the scene clustered by run_cluster_method, and by run_kmeans from each pick
InitScene ==
  \E initial \in {<<>>} \cup ScenePicks :
    StartOf(SceneSamples, SceneSettings,
            [fn |-> IF initial = <<>> THEN "run_cluster_method" ELSE "run_kmeans",
             initial |-> initial])

InitApi ==
  \/ \E fn \in {"run_kmeans", "run_cluster_method"} :
       \E st \in {t \in ApiSettings : ApiRead(fn, t)} :
         \E smp \in BlockArrays(1) :
           \E initial \in IF fn = "run_kmeans" THEN ApiInitials ELSE {<<>>} :
             StartOf(smp, st, [fn |-> fn, initial |-> initial])
  \/ InitScene

SpecApi == InitApi /\ [][Next]_vars

(***************************************************************************)
(* The initializers and helper functions called on their own.  call names  *)
(* the function and holds its arguments other than samples and settings;   *)
(* centroids holds the centroid list an initializer returned.              *)
(***************************************************************************)
MaxFnSamples == 3

FnLevels == {0, 300, 450, One}

RECURSIVE FnArrays(_)
FnArrays(n) ==
  IF n = 0 THEN {<<>>}
  ELSE {<<AlphaSample(a)>> \o rest : a \in FnLevels, rest \in FnArrays(n - 1)}

FnSamples == UNION {FnArrays(n) : n \in 0..MaxFnSamples}

FnSettings ==
  { [cluster_method |-> "KMeans", cluster_count |-> 2, auto_max_clusters |-> 2,
     max_iterations |-> 16, seed |-> U32(sd), color_space |-> "AlphaOnly",
     init_method |-> im, selected_colors |-> SubSeq(ColorParams(<<150, One>>), 1, 2),
     area_similarity_threshold |-> 300, gmeans_alpha |-> 500] :
      sd \in {1, 7}, im \in {"Random", "Area", "SelectedColors", "KMeansParallel"} }

\* build_initial_centroids(samples, settings, target_k) is called
InitBuildInitial ==
  \E smp \in FnSamples : \E st \in FnSettings : \E k \in 0..3 :
    StartOf(smp, st, [fn |-> "build_initial_centroids", initial |-> <<>>,
                      target_k |-> k])

\* build_initial_centroids, lines 1284-1322
CallBuildInitial ==
  /\ pc = "call"
  /\ call.fn = "build_initial_centroids"
  /\ centroids' = build_initial_centroids(samples, settings, call.target_k)
  /\ pc' = "done"
  /\ UNCHANGED << samples, settings, call, arg, km, result, round, tests, invocation,
                  first_result, loop_labels, handed >>

\* init_centroids_kmeans_parallel(samples, target_k, color_space, seed) is called
InitKMeansParallel ==
  \E smp \in FnSamples : \E st \in FnSettings : \E k \in 0..3 :
    /\ st.init_method = "KMeansParallel"
    /\ StartOf(smp, st, [fn |-> "init_centroids_kmeans_parallel", initial |-> <<>>,
                         target_k |-> k])

\* init_centroids_kmeans_parallel, lines 1348-1489; km keeps its locals
\* candidates and chosen as they are at the return
CallKMeansParallel ==
  /\ pc = "call"
  /\ call.fn = "init_centroids_kmeans_parallel"
  /\ centroids' = init_centroids_kmeans_parallel(samples, call.target_k,
                                                  settings.color_space, settings.seed)
  /\ km' = KmpLocals(samples, call.target_k, settings.color_space, settings.seed)
  /\ pc' = "done"
  /\ UNCHANGED << samples, settings, call, arg, result, round, tests, invocation,
                  first_result, loop_labels, handed >>

\* init_centroids_area_based(samples, target_k, threshold, color_space, seed)
\* is called
InitAreaBased ==
  \E smp \in FnSamples : \E st \in FnSettings : \E k \in 0..3 :
    /\ st.init_method = "Area"
    /\ StartOf(smp, st, [fn |-> "init_centroids_area_based", initial |-> <<>>,
                         target_k |-> k])

\* lines 1498-1509: the early return, or the scan's locals in km
AreaEnter ==
  /\ pc = "call"
  /\ call.fn = "init_centroids_area_based"
  /\ IF Len(samples) = 0 \/ call.target_k = 0
     THEN /\ centroids' = <<>>
          /\ pc' = "done"
          /\ km' = km
     ELSE /\ km' = [groups |-> <<>>, idx |-> 0, sampled |-> 0,
                    step |-> Max2(Len(samples) \div Max2(AREA_MAX_SAMPLES, 1), 1)]
          /\ pc' = "area_scan"
          /\ centroids' = centroids
  /\ UNCHANGED << samples, settings, call, arg, result, round, tests, invocation,
                  first_result, loop_labels, handed >>

\* lines 1515-1521: <<best_group, best_dist>> for the sample at km.idx
AreaNear ==
  nearest_centroid_idx(sample_at(samples, km.idx), AreaCenters(km.groups),
                       settings.color_space)

\* lines 1510-1535: one pass of the scan loop
AreaScanStep ==
  /\ pc = "area_scan"
  /\ km.idx < Len(samples) /\ km.sampled < AREA_MAX_SAMPLES
  /\ km' = [km EXCEPT
              !.groups = AreaPlace(km.groups, sample_at(samples, km.idx), AreaNear,
                                   AreaThresholdSq(settings.area_similarity_threshold)),
              !.sampled = @ + 1,
              !.idx = @ + km.step]
  /\ UNCHANGED << samples, settings, call, pc, arg, result, round, centroids, tests,
                  invocation, first_result, loop_labels, handed >>

\* lines 1537-1549: after the scan
AreaReturn ==
  /\ pc = "area_scan"
  /\ ~(km.idx < Len(samples) /\ km.sampled < AREA_MAX_SAMPLES)
  /\ centroids' = AreaTop(samples, call.target_k, settings.seed, AreaSorted(km.groups))
  /\ pc' = "done"
  /\ UNCHANGED << samples, settings, call, arg, km, result, round, tests, invocation,
                  first_result, loop_labels, handed >>

\* init_centroids_random(samples, target_k, seed) is called
InitRandom ==
  \E smp \in FnSamples : \E st \in FnSettings : \E k \in 0..3 :
    /\ st.init_method = "Random"
    /\ StartOf(smp, st, [fn |-> "init_centroids_random", initial |-> <<>>,
                         target_k |-> k])

\* lines 1325-1331: the early return, or the loop's locals in km
RandomEnter ==
  /\ pc = "call"
  /\ call.fn = "init_centroids_random"
  /\ IF Len(samples) = 0 \/ call.target_k = 0
     THEN /\ centroids' = <<>>
          /\ pc' = "done"
          /\ km' = km
     ELSE /\ km' = [centroids |-> <<>>,
                    rng |-> Rng_new(SeedXor(settings.seed, RngRandomInit)),
                    attempts |-> 0]
          /\ pc' = "random_loop"
          /\ centroids' = centroids
  /\ UNCHANGED << samples, settings, call, arg, result, round, tests, invocation,
                  first_result, loop_labels, handed >>

\* lines 1333-1340: one turn of the loop
RandomDrawStep ==
  /\ pc = "random_loop"
  /\ RandomInitOpen(call.target_k, km)
  /\ km' = RandomInitDraw(samples, km, Rng_gen_index(km.rng, Len(samples)))
  /\ UNCHANGED << samples, settings, call, pc, arg, result, round, centroids, tests,
                  invocation, first_result, loop_labels, handed >>

\* lines 1342-1345: after the loop
RandomReturn ==
  /\ pc = "random_loop"
  /\ ~RandomInitOpen(call.target_k, km)
  /\ centroids' = OrFirstSample(samples, km.centroids)
  /\ pc' = "done"
  /\ UNCHANGED << samples, settings, call, arg, km, result, round, tests, invocation,
                  first_result, loop_labels, handed >>

MaxIndices == 5

\* the index lists: ascending, as build_cluster_indices makes them, and the
\* same lists reversed
RECURSIVE Ascending(_)
Ascending(n) ==
  IF n = 0 THEN {<<>>}
  ELSE Ascending(n - 1) \cup {Append(seq, n - 1) : seq \in Ascending(n - 1)}

FnIndices ==
  Ascending(MaxIndices)
    \cup {[i \in 1..Len(seq) |-> seq[Len(seq) + 1 - i]] : seq \in Ascending(MaxIndices)}

\* sample_indices_for_split(indices, limit, seed) is called
InitSplitSample ==
  \E indices \in FnIndices : \E limit \in 0..3 : \E st \in FnSettings :
    \E sd \in 1..8 :
      /\ st.init_method = "Random" /\ st.seed = U32(1)
      /\ StartOf(<<>>, [st EXCEPT !.seed = U32(sd)],
                 [fn |-> "sample_indices_for_split", initial |-> <<>>,
                  indices |-> indices, limit |-> limit])

\* sample_indices_for_split, lines 2011-2033; loop_labels takes the indices
\* returned
CallSplitSample ==
  /\ pc = "call"
  /\ call.fn = "sample_indices_for_split"
  /\ loop_labels' = sample_indices_for_split(call.indices, call.limit, settings.seed)
  /\ pc' = "done"
  /\ UNCHANGED << samples, settings, call, arg, km, result, round, centroids, tests,
                  invocation, first_result, handed >>

\* hue values: the ends, the middle and their neighbours on the grid
HueGrid == {0, 1, 2, 300, 599, 600, 601, 900, One - 2, One - 1, One}

\* circular_delta(a, b) is called
InitCircularDelta ==
  \E a \in HueGrid : \E b \in HueGrid : \E st \in FnSettings :
    /\ st.init_method = "Random" /\ st.seed = U32(1)
    /\ StartOf(<<>>, st, [fn |-> "circular_delta", initial |-> <<>>, a |-> a, b |-> b])

\* circular_delta, lines 1848-1856; result takes the value returned
CallCircularDelta ==
  /\ pc = "call"
  /\ call.fn = "circular_delta"
  /\ result' = circular_delta(call.a, call.b)
  /\ pc' = "done"
  /\ UNCHANGED << samples, settings, call, arg, km, round, centroids, tests,
                  invocation, first_result, loop_labels, handed >>

ColorSpaces == {"LinearRgb", "Oklab", "Oklch", "Hsv", "Yiq", "AlphaOnly"}

\* feature vectors for the first argument and for the second
FnFeaturesA ==
  {<<x, y, z, w>> : x \in {0, 900, One}, y \in {0, 600}, z \in {0, 600}, w \in {0, One}}

FnFeaturesB == {<<x, 0, 0, w>> : x \in {0, 900, One}, w \in {0, One}}

\* feature_distance_sq(a, b, color_space) is called, and called again with
\* the alpha components alpha_a and alpha_b in place of those of a and b
InitFeatureDistance ==
  \E a \in FnFeaturesA : \E b \in FnFeaturesB : \E cs \in ColorSpaces :
    \E alpha_a \in {0, 600} : \E alpha_b \in {600, One} : \E st \in FnSettings :
      /\ st.init_method = "Random" /\ st.seed = U32(1)
      /\ StartOf(<<>>, [st EXCEPT !.color_space = cs],
                 [fn |-> "feature_distance_sq", initial |-> <<>>, a |-> a, b |-> b,
                  alpha_a |-> alpha_a, alpha_b |-> alpha_b])

\* feature_distance_sq, lines 1833-1838; result takes the two values returned
CallFeatureDistance ==
  /\ pc = "call"
  /\ call.fn = "feature_distance_sq"
  /\ result' =
       [first  |-> feature_distance_sq(call.a, call.b, settings.color_space),
        second |-> feature_distance_sq([call.a EXCEPT ![4] = call.alpha_a],
                                       [call.b EXCEPT ![4] = call.alpha_b],
                                       settings.color_space)]
  /\ pc' = "done"
  /\ UNCHANGED << samples, settings, call, arg, km, round, centroids, tests,
                  invocation, first_result, loop_labels, handed >>

InitFn ==
  \/ InitBuildInitial
  \/ InitCircularDelta
  \/ InitFeatureDistance
  \/ InitSplitSample
  \/ InitRandom
  \/ InitAreaBased
  \/ InitKMeansParallel

NextFn ==
  \/ CallBuildInitial
  \/ CallCircularDelta
  \/ CallFeatureDistance
  \/ CallSplitSample
  \/ RandomEnter
  \/ RandomDrawStep
  \/ RandomReturn
  \/ AreaEnter
  \/ AreaScanStep
  \/ AreaReturn
  \/ CallKMeansParallel

SpecFn == InitFn /\ [][NextFn]_vars

(***************************************************************************)
(* Properties.  `result` holds the ClusterResult that run_kmeans returned   *)
(* last (pc = "km_ret") and, at pc = "done", the one the invocation         *)
(* returned.                                                               *)
(***************************************************************************)
Returned == pc \in {"km_ret", "done"}

\* the squared distance of sample i to the centroid that labels gives it
DistanceUnder(labels, i) ==
  feature_distance_sq(samples[i], result.centroids[labels[i] + 1], settings.color_space)

TotalSse(labels) == SumSeq([i \in 1..Len(samples) |-> DistanceUnder(labels, i)])

Coincident(a, b) == LtDedupEpsilon(feature_distance_sq(a, b, settings.color_space))

AutoMethod == settings.cluster_method \in {"XMeans", "GMeans"}

\* C1: in every returned ClusterResult each label is a valid 0-based index
\* into the result's centroids.
C1_LabelsIndexCentroids ==
  Returned =>
    \A i \in 1..Len(result.labels) :
      result.labels[i] >= 0 /\ result.labels[i] < Len(result.centroids)

C1_Witness ==
  /\ pc = "done"
  /\ Len(result.centroids) >= 2
  /\ \E i \in 1..Len(result.labels) : result.labels[i] = Len(result.centroids) - 1

\* C2: a returned ClusterResult has one label per input sample, its counts
\* sum to the number of samples, and counts[c] is the number of samples
\* labelled c.
C2_LabelsPartitionSamples ==
  Returned =>
    /\ Len(result.labels) = Len(samples)
    /\ Len(result.counts) = Len(result.centroids)
    /\ SumSeq(result.counts) = Len(samples)
    /\ \A c \in 1..Len(result.counts) :
         result.counts[c] = Cardinality({i \in 1..Len(samples) : result.labels[i] = c - 1})

C2_Witness ==
  /\ pc = "done"
  /\ Len(result.counts) >= 2
  /\ \A c \in 1..Len(result.counts) : result.counts[c] >= 1
  /\ \E c \in 1..Len(result.counts) : result.counts[c] >= 2

\* C3: the result of run_xmeans and of run_gmeans has at most
\* settings.auto_max_clusters centroids.
C3_AtMostAutoMaxClusters ==
  pc = "done" /\ AutoMethod => Len(result.centroids) <= settings.auto_max_clusters

\* C4: in run_xmeans the centroid set handed to each next round of run_kmeans
\* is never smaller than the one handed to the round before, and the set the
\* final run_kmeans returns is never smaller than the set of the round before.
C4_CentroidCountNeverDrops ==
  settings.cluster_method = "XMeans" =>
    /\ \A i \in 1..(Len(handed) - 1) : handed[i] <= handed[i + 1]
    /\ pc = "done" /\ Len(handed) >= 2 =>
         Len(result.centroids) >= handed[Len(handed) - 1]

\* C5: no two centroids of a returned ClusterResult are within a squared
\* distance of 1e-8 of each other.
C5_CentroidsApart ==
  Returned =>
    \A a, b \in 1..Len(result.centroids) :
      a # b => ~Coincident(result.centroids[a], result.centroids[b])

\* C6: the final assignment pass of run_kmeans never increases the total
\* squared error: measured against the returned centroids, the returned
\* labels cost no more than the labels the loop ended with.
C6_FinalPassNoWorse ==
  Returned /\ result.centroids # <<>> =>
    TotalSse(result.labels) <= TotalSse(loop_labels)

C6_Witness ==
  /\ pc = "km_ret"
  /\ result.centroids # <<>>
  /\ result.labels # loop_labels
  /\ TotalSse(result.labels) < TotalSse(loop_labels)

\* C7: in a result of run_kmeans every sample is labelled with a centroid
\* that no other centroid is nearer than, and sse_per_cluster[c] is the sum
\* of the squared distances of the samples labelled c to centroid c.
C7_NearestLabelsAndSse ==
  Returned =>
    /\ \A i \in 1..Len(result.labels) :
         \A c \in 1..Len(result.centroids) :
           DistanceUnder(result.labels, i) <=
             feature_distance_sq(samples[i], result.centroids[c], settings.color_space)
    /\ \A c \in 1..Len(result.sse_per_cluster) :
         result.sse_per_cluster[c] =
           SumSeq([i \in 1..Len(samples) |->
                     IF result.labels[i] = c - 1
                     THEN DistanceUnder(result.labels, i) ELSE 0])

C7_Witness ==
  /\ pc = "km_ret"
  /\ Len(result.centroids) >= 2
  /\ \E c \in 1..Len(result.centroids) :
       result.counts[c] >= 2 /\ result.sse_per_cluster[c] > 0
  /\ \E i \in 1..Len(samples) :
       \E c \in 1..Len(result.centroids) :
         DistanceUnder(result.labels, i) <
           feature_distance_sq(samples[i], result.centroids[c], settings.color_space)

\* C8: a second invocation on the same samples and settings returns the
\* result of the first, whatever the first invocation left behind.
C8_SecondInvocationSame ==
  pc = "done" /\ invocation = 2 => result = first_result

C8_Witness ==
  /\ pc = "done"
  /\ invocation = 2
  /\ Len(result.centroids) >= 2
  /\ km.rng # Rng_new(SeedXor(arg.seed, RngKMeans))
  /\ result = first_result

\* the invocation was given no samples or, for run_kmeans, no initial centroid
EmptyInput ==
  \/ Len(samples) = 0 /\ (call.fn = "run_kmeans" \/ AutoMethod)
  \/ call.fn = "run_kmeans" /\ call.initial = <<>>

\* C9: run_kmeans given zero samples or an empty initial centroid list, and
\* run_xmeans and run_gmeans given zero samples, return the empty
\* ClusterResult.
C9_EmptyInputEmptyResult ==
  pc = "done" /\ EmptyInput => result = EmptyResult

C9_Witness ==
  /\ pc = "done"
  /\ call.fn = "run_kmeans"
  /\ Len(samples) > 0
  /\ call.initial = <<>>
  /\ result = EmptyResult

\* the settings ask for zero clusters
ZeroTarget ==
  /\ call.fn = "run_cluster_method"
  /\ IF settings.cluster_method = "KMeans"
     THEN settings.cluster_count = 0
     ELSE settings.auto_max_clusters = 0

\* C10 as stated: an invocation whose target cluster count is zero returns
\* the empty ClusterResult.
C10_ZeroTargetEmptyResult ==
  pc = "done" /\ ZeroTarget => result = EmptyResult

\* C10: an invocation whose target cluster count is zero returns the empty
\* ClusterResult when there are no samples; otherwise the target is raised
\* to one and the result has a single centroid that holds every sample.
C10_ZeroTargetOneCluster ==
  pc = "done" /\ ZeroTarget =>
    IF Len(samples) = 0
    THEN result = EmptyResult
    ELSE /\ Len(result.centroids) = 1
         /\ result.counts = << Len(samples) >>
         /\ \A i \in 1..Len(samples) : result.labels[i] = 0

C10_Witness ==
  /\ pc = "done"
  /\ ZeroTarget
  /\ Len(samples) >= 2
  /\ Len(result.centroids) = 1
  /\ \E i, j \in 1..Len(samples) : samples[i] # samples[j]

\* run_cluster_method took the KMeans arm
KMeansPath == call.fn = "run_cluster_method" /\ settings.cluster_method = "KMeans"

\* C11: when settings.cluster_count exceeds the number of samples the KMeans
\* path returns a result for every sample, with at most
\* min(cluster_count, sample count, MAX_CLUSTERS) centroids.
C11_RequestClampedToSamples ==
  pc = "done" /\ KMeansPath /\ settings.cluster_count > Len(samples) =>
    /\ Len(result.centroids) <=
         Min2(Min2(settings.cluster_count, Len(samples)), MAX_CLUSTERS)
    /\ Len(result.labels) = Len(samples)

C11_Witness ==
  /\ pc = "done"
  /\ KMeansPath
  /\ settings.cluster_count = 2
  /\ Len(samples) = 1
  /\ settings.init_method = "SelectedColors"
  /\ Len(result.centroids) = 1
  /\ result.counts = <<1>>

\* the run_kmeans call that returned was given centroids that all coincide
CoincidentInitials ==
  /\ arg.centroids # <<>>
  /\ \A a, b \in 1..Len(arg.centroids) : Coincident(arg.centroids[a], arg.centroids[b])

\* C12: run_kmeans given initial centroids that all coincide, and at least
\* one sample, returns one centroid that holds every sample, and its Lloyd
\* loop has ended within max(max_iterations, 1) iterations.
C12_CoincidentInitialsOneCluster ==
  pc = "km_ret" /\ CoincidentInitials /\ Len(samples) >= 1 =>
    /\ Len(result.centroids) = 1
    /\ result.labels = [i \in 1..Len(samples) |-> 0]
    /\ result.counts = << Len(samples) >>
    /\ km.iterations \in 1..Max2(settings.max_iterations, 1)

C12_Witness ==
  /\ pc = "km_ret"
  /\ call.fn = "run_kmeans"
  /\ Len(arg.centroids) = 2
  /\ CoincidentInitials
  /\ Len(samples) >= 2
  /\ samples[1] # samples[2]
  /\ result.counts = << Len(samples) >>

\* every sample has the same colour
IdenticalSamples == \A i, j \in 1..Len(samples) : samples[i] = samples[j]

\* C13: on samples of one colour and a requested k above one, the KMeans
\* path returns exactly one centroid and its Lloyd loop stops after one
\* iteration, whichever the init method.
C13_IdenticalSamplesOneCentroid ==
  pc = "done" /\ KMeansPath /\ IdenticalSamples /\ settings.cluster_count >= 2 =>
    Len(result.centroids) = 1 /\ km.iterations = 1

\* the invocation clusters the scene of black, white, red and cyan
SceneA == samples = SceneSamples /\ settings = SceneSettings

\* C14: black, white, red and cyan in LinearRgb, KMeans with k = 2, Random
\* init, seed 1 and 16 iterations (and run_kmeans from any two distinct
\* samples): two centroids, both clusters non-empty, counts that sum to 4.
C14_SceneTwoClusters ==
  pc = "done" /\ SceneA =>
    /\ Len(result.centroids) = 2
    /\ Len(result.counts) = 2
    /\ result.counts[1] >= 1
    /\ result.counts[2] >= 1
    /\ result.counts[1] + result.counts[2] = 4

C14_Witness ==
  /\ pc = "done"
  /\ SceneA
  /\ call.fn = "run_cluster_method"
  /\ Len(result.centroids) = 2
  /\ result.counts[1] + result.counts[2] = 4

\* the distance of sample i to the centroid of its label, in the locals of
\* the run_kmeans call in progress
OwnDistance(i) ==
  Sqrt(feature_distance_sq(samples[i], km.centroids[km.labels[i] + 1],
                           settings.color_space))

\* max(s[label], lower) of line 1206 for sample i in the iteration about to run
SkipBound(i) ==
  Max2(half_min_center_distances(km.centroids, settings.color_space)[km.labels[i] + 1],
       km.lower[i])

\* the iteration about to run skips sample i on the test of line 1206
SkippedAtOnce(i) == km.upper[i] <= SkipBound(i)

\* ... or on the test of line 1213, with upper tightened to the distance
SkippedTightened(i) == ~SkippedAtOnce(i) /\ OwnDistance(i) <= SkipBound(i)

\* no centroid is strictly closer to sample i than the centroid of its label
LabelIsNearest(i) ==
  \A c \in 1..Len(km.centroids) :
    feature_distance_sq(samples[i], km.centroids[km.labels[i] + 1], settings.color_space)
      <= feature_distance_sq(samples[i], km.centroids[c], settings.color_space)

\* C15: a sample that an iteration of the Lloyd loop skips, on the first test
\* or after its upper bound is tightened, has no centroid strictly closer to
\* it than the centroid of its label.
C15_SkippedSampleKeepsNearest ==
  pc = "km_loop" =>
    \A i \in 1..Len(samples) :
      SkippedAtOnce(i) \/ SkippedTightened(i) => LabelIsNearest(i)

C15_Witness ==
  /\ pc = "km_loop"
  /\ km.iterations >= 1
  /\ Len(km.centroids) >= 2
  /\ \E i \in 1..Len(samples) : SkippedAtOnce(i) /\ km.upper[i] > 0 /\ LabelIsNearest(i)
  /\ \E i \in 1..Len(samples) : SkippedTightened(i) /\ LabelIsNearest(i)

\* the distance of sample i to centroid c (counted from one) of the call in
\* progress
DistanceTo(i, c) ==
  Sqrt(feature_distance_sq(samples[i], km.centroids[c], settings.color_space))

\* C16: at the start of every iteration of the Lloyd loop, upper[i] is at
\* least the distance of sample i to the centroid of its label, and lower[i]
\* is at most its distance to every other centroid.
C16_HamerlyBounds ==
  pc = "km_loop" =>
    \A i \in 1..Len(samples) :
      /\ km.upper[i] >= OwnDistance(i)
      /\ \A c \in 1..Len(km.centroids) :
           c # km.labels[i] + 1 => km.lower[i] <= DistanceTo(i, c)

C16_Witness ==
  /\ pc = "km_loop"
  /\ km.iterations >= 1
  /\ Len(km.centroids) >= 2
  /\ \E i \in 1..Len(samples) : km.upper[i] > OwnDistance(i)
  /\ \E i \in 1..Len(samples) :
       \E c \in 1..Len(km.centroids) :
         c # km.labels[i] + 1 /\ 0 < km.lower[i] /\ km.lower[i] < DistanceTo(i, c)

\* the limit of the loop of line 1197
IterationLimit == Max2(settings.max_iterations, 1)

\* the iteration that this step is changed no label and moved no centroid by
\* more than HAMERLY_EPSILON
QuietIteration ==
  /\ km'.labels = km.labels
  /\ \A c \in 1..Len(km.centroids) :
       LeHamerlyEpsilon(Sqrt(feature_distance_sq(km.centroids[c], km'.centroids[c],
                                                 settings.color_space)))

\* C17: the Lloyd loop of run_kmeans runs at least one and at most
\* max(max_iterations, 1) iterations, and it ends before that limit exactly
\* when an iteration changed no label and moved no centroid by more than 1e-4.
C17_LoopLength ==
  /\ [](pc = "km_final" => km.iterations \in 1..IterationLimit)
  /\ [][pc = "km_loop" =>
         /\ km.iterations < IterationLimit
         /\ km'.iterations = km.iterations + 1
         /\ pc' \in {"km_loop", "km_final"}
         /\ pc' = "km_final" <=> QuietIteration \/ km'.iterations = IterationLimit]_vars

C17_Witness ==
  /\ pc = "km_final"
  /\ Len(km.centroids) >= 2
  /\ km.iterations >= 2
  /\ km.iterations < IterationLimit
  /\ km.stop

AutoPath == call.fn = "run_cluster_method" /\ settings.cluster_method # "KMeans"

\* the split pass of the round that this step is, on the outcomes of its tests
LastPass(clusters) ==
  SplitPass(result.centroids, clusters,
            IF settings.cluster_method = "XMeans"
            THEN XMeansTrials(samples, result, settings, round + 17, clusters)
            ELSE GMeansTrials(samples, result, settings, round + 31, clusters),
            tests',
            IF settings.cluster_method = "XMeans" THEN 8 ELSE 10,
            settings.auto_max_clusters, 0,
            [next_centroids |-> <<>>, split_count |-> 0])

\* the centroids handed to the final run_kmeans are the round's result when the
\* pass accepted no split, and hold every centroid of the pass otherwise
FinalFromAll(pass) ==
  IF pass.split_count = 0
  THEN arg'.centroids = result.centroids
  ELSE /\ \A j \in 1..Len(pass.next_centroids) :
            \E c \in 1..Len(arg'.centroids) : arg'.centroids[c] = pass.next_centroids[j]
       /\ Len(arg'.centroids) = Len(result.centroids) + pass.split_count

XMeansStarted ==
  /\ call.fn = "run_cluster_method"
  /\ settings.cluster_method = "XMeans"
  /\ Len(samples) >= 1
  /\ Len(handed) >= 1

\* the selected colours, capped by auto_max_clusters and the sample count
SelectedStart ==
  Min2(Min2(Len(settings.selected_colors), settings.auto_max_clusters), Len(samples))

\* the samples hold two colours that dedup_centroids keeps apart
TwoColours == \E i, j \in 1..Len(samples) : ~Coincident(samples[i], samples[j])

\* C19 as stated: with an init method other than SelectedColors the first
\* Lloyd round of run_xmeans is seeded with a single centroid; with
\* SelectedColors it is seeded with the number of selected colours, capped by
\* auto_max_clusters and the sample count.
C19_XMeansStartsAtOne ==
  XMeansStarted =>
    handed[1] = IF settings.init_method = "SelectedColors" THEN SelectedStart ELSE 1

\* C19 amended: with an init method other than SelectedColors run_xmeans asks
\* for two centroids, capped by auto_max_clusters and the sample count and
\* raised to one, and its first Lloyd round is seeded with two whenever the
\* cap allows two and the samples hold two colours; with SelectedColors it
\* asks for the number of selected colours under the same cap.
C19_XMeansStartsAtTwo ==
  XMeansStarted =>
    IF settings.init_method = "SelectedColors"
    THEN handed[1] = Max2(SelectedStart, 1)
    ELSE /\ handed[1] \in 1..Max2(Min2(Min2(2, settings.auto_max_clusters), Len(samples)), 1)
         /\ settings.auto_max_clusters >= 2 /\ TwoColours => handed[1] = 2

C19_Witness ==
  /\ XMeansStarted
  /\ settings.init_method = "Random"
  /\ pc = "km_loop"
  /\ round = 0
  /\ handed = <<2>>
  /\ Len(km.centroids) = 2

\* a round of run_xmeans / run_gmeans has just made its pass: result is still
\* the round's run_kmeans result and round the counter after its increment
RoundPassed ==
  /\ call.fn = "run_cluster_method"
  /\ settings.cluster_method # "KMeans"
  /\ pc = "km_call"
  /\ Len(handed) >= 2

RoundClusters == build_cluster_indices(result.labels, Len(result.centroids))

\* the seed of the split trial of cluster c (counted from one)
TrialSeed(c) ==
  WrappingAdd(settings.seed,
              U32((c - 1) * (IF settings.cluster_method = "XMeans" THEN 97 ELSE 131)
                  + round))

TrialSampled(c) ==
  sample_indices_for_split(RoundClusters[c], SPLIT_DECISION_MAX_SAMPLES, TrialSeed(c))

TrialSubset(c) == collect_subset_samples(samples, TrialSampled(c))

\* the local two-seed Lloyd run of the split trial of cluster c
TrialLocal(c) ==
  TrialKMeans(TrialSubset(c),
              make_split_seeds(samples, TrialSampled(c), result.centroids[c],
                               settings.color_space),
              settings, TrialSeed(c))

\* the x-means trial of cluster c has fewer than two centroids or an empty child
XMeansDegenerate(local) ==
  Len(local.centroids) < 2 \/ \E k \in 1..Len(local.counts) : local.counts[k] = 0

\* the g-means trial of cluster c has fewer than two centroids, a child of
\* fewer than 2 members, or fewer than 8 projected points
GMeansDegenerate(c, local) ==
  \/ Len(local.centroids) < 2
  \/ \E k \in 1..Len(local.counts) : local.counts[k] < 2
  \/ Len(build_split_projections(TrialSubset(c), result.centroids[c],
                                 local.centroids[1], local.centroids[2],
                                 settings.color_space)) < 8

TrialDegenerate(c) ==
  IF settings.cluster_method = "XMeans" THEN XMeansDegenerate(TrialLocal(c))
  ELSE GMeansDegenerate(c, TrialLocal(c))

\* the clusters large enough for the round to try a split
TriedClusters ==
  {c \in 1..Len(result.centroids) :
     Len(RoundClusters[c]) >= (IF settings.cluster_method = "XMeans" THEN 8 ELSE 10)}

\* what the split trial of cluster c returned
TrialOf(c) ==
  IF settings.cluster_method = "XMeans"
  THEN split_cluster_xmeans(samples, RoundClusters[c], result.centroids[c],
                            result.sse_per_cluster[c], settings, TrialSeed(c))
  ELSE split_cluster_gmeans(samples, RoundClusters[c], result.centroids[c], settings,
                            TrialSeed(c))

ParentKept(c) == \E j \in 1..Len(arg.centroids) : arg.centroids[j] = result.centroids[c]

\* C20: an x-means split trial whose local two-seed Lloyd run returns fewer
\* than two centroids or a child with no member is rejected and the parent
\* centroid kept; a g-means trial is rejected, and the parent kept, when a
\* child has fewer than 2 members or there are fewer than 8 projected points.
C20_DegenerateTrialRejected ==
  RoundPassed =>
    \A c \in TriedClusters :
      TrialDegenerate(c) => TrialOf(c) = NoSplit /\ ParentKept(c)

C20_Witness ==
  /\ RoundPassed
  /\ Len(arg.centroids) > Len(result.centroids)
  /\ \E c \in TriedClusters : TrialDegenerate(c) /\ ParentKept(c)

BuildInitialDone == pc = "done" /\ call.fn = "build_initial_centroids"

\* C21: for non-empty samples and target_k >= 1, build_initial_centroids
\* returns, for every init method, at least 1 and at most
\* min(target_k, sample_count, MAX_CLUSTERS) centroids, no two of them at a
\* squared distance below 1e-8.
C21_InitialCentroidsBounded ==
  BuildInitialDone /\ Len(samples) >= 1 /\ call.target_k >= 1 =>
    /\ Len(centroids) >= 1
    /\ Len(centroids) <= Min2(Min2(call.target_k, Len(samples)), MAX_CLUSTERS)
    /\ \A a, b \in 1..Len(centroids) :
         a # b => ~Coincident(centroids[a], centroids[b])

C21_Witness ==
  /\ BuildInitialDone
  /\ call.target_k = 3
  /\ Len(samples) = 3
  /\ settings.init_method = "KMeansParallel"
  /\ Len(centroids) = 2
  /\ \E i, j \in 1..Len(samples) : samples[i] = samples[j] /\ i # j

KMeansParallelDone ==
  /\ pc = "done"
  /\ call.fn = "init_centroids_kmeans_parallel"
  /\ call.target_k >= 1
  /\ call.target_k <= Len(samples)

NoRepeat(seq) == \A a, b \in 1..Len(seq) : a # b => seq[a] # seq[b]

\* C22 as stated: for 1 <= target_k <= sample_count the k-means||
\* initializer returns exactly target_k centroids, and its weighted selection
\* never picks the same candidate twice.
C22_ExactlyK ==
  KMeansParallelDone =>
    /\ Len(centroids) = call.target_k
    /\ NoRepeat(km.chosen)

\* C22 amended: for 1 <= target_k <= sample_count the k-means|| initializer
\* returns between 1 and target_k centroids, no two of them coincident; when
\* the rounds leave more than target_k distinct candidates the selection
\* picks exactly target_k of them and these are the result; the selection
\* never picks the same candidate twice.
C22_AtMostK ==
  KMeansParallelDone =>
    /\ Len(centroids) \in 1..call.target_k
    /\ \A a, b \in 1..Len(centroids) :
         a # b => ~Coincident(centroids[a], centroids[b])
    /\ NoRepeat(km.chosen)
    /\ \A j \in 1..Len(km.chosen) : km.chosen[j] \in 0..(Len(km.candidates) - 1)
    /\ call.target_k >= 2 /\ Len(km.candidates) > call.target_k =>
         /\ Len(km.chosen) = call.target_k
         /\ centroids = [j \in 1..call.target_k |-> km.candidates[km.chosen[j] + 1]]

\* the selection ran: three candidates, two of them picked
C22_Witness ==
  /\ KMeansParallelDone
  /\ call.target_k = 2
  /\ Len(km.candidates) = 3
  /\ Len(km.chosen) = 2
  /\ Len(centroids) = 2

\* fewer than target_k centroids although the samples hold target_k colours
KmpFewerThanK ==
  /\ KMeansParallelDone
  /\ Len(centroids) < call.target_k
  /\ Cardinality({samples[i] : i \in 1..Len(samples)}) >= call.target_k

\* a pass of the area scan over a sample, with groups to compare it to
AreaPass == pc = "area_scan" /\ km'.sampled = km.sampled + 1 /\ km.groups # <<>>

\* the sample scanned joined its nearest group
AreaJoined ==
  /\ Len(km'.groups) = Len(km.groups)
  /\ km'.groups = [km.groups EXCEPT ![AreaNear[1] + 1] =
                                       AreaGroup_add(@, sample_at(samples, km.idx))]

\* the sample scanned started a group
AreaStarted == km'.groups = Append(km.groups, AreaGroup_new(sample_at(samples, km.idx)))

AreaStep3 ==
  AreaPass =>
    IF AreaNear[2] <= 3 * Sq(settings.area_similarity_threshold)
    THEN AreaJoined ELSE AreaStarted

AreaStep1 ==
  AreaPass =>
    IF AreaNear[2] <= Sq(settings.area_similarity_threshold)
    THEN AreaJoined ELSE AreaStarted

\* C23 as stated: in the area-based initializer a scanned sample joins its
\* nearest group exactly when its squared distance to the group's centre is
\* at most 3 * threshold^2, and otherwise starts a new group.
C23_JoinsWithinThreeFold == [][AreaStep3]_vars

\* what the scan does: a scanned sample joins its nearest group exactly when
\* its squared distance to the group's centre is at most threshold^2, and
\* otherwise starts a new group; the first sample scanned starts a group.
AreaJoinsWithinThreshold ==
  [][/\ AreaStep1
     /\ pc = "area_scan" /\ km'.sampled = km.sampled + 1 /\ km.groups = <<>> =>
          AreaStarted]_vars

\* a sample was scanned at a squared distance between threshold^2 and
\* 3 * threshold^2 from the nearest centre and started the second group,
\* after a sample that joined at a distance above zero
AreaBetweenThresholds ==
  /\ pc = "area_scan"
  /\ km.sampled = 3
  /\ Len(km.groups) = 2
  /\ km.groups[1].count = 2
  /\ km.groups[1].sum0 # 2 * samples[1][1]
  /\ feature_distance_sq(samples[3], ClusterAccum_mean(km.groups[1]),
                         settings.color_space)
       > Sq(settings.area_similarity_threshold)
  /\ feature_distance_sq(samples[3], ClusterAccum_mean(km.groups[1]),
                         settings.color_space)
       <= 3 * Sq(settings.area_similarity_threshold)

RandomCalled == call.fn = "init_centroids_random" /\ pc \in {"random_loop", "done"}

\* no two of the centroids are within 1e-6 of each other in all four components
NoneNearlySame(seq) ==
  \A a, b \in 1..Len(seq) : a # b => ~nearly_same_feature(seq[a], seq[b])

\* C24: init_centroids_random draws at most 16 * k candidate indices (every
\* turn of its loop draws one and counts it, and the loop ends at 16 * k),
\* never keeps a candidate whose four components are all within 1e-6 of a
\* kept centroid, and for non-empty samples and k >= 1 returns between 1 and
\* k centroids.
C24_RandomInitBounded ==
  /\ [](RandomCalled /\ Len(samples) >= 1 /\ call.target_k >= 1 =>
         /\ km.attempts <= 16 * call.target_k
         /\ NoneNearlySame(km.centroids)
         /\ pc = "done" =>
              /\ Len(centroids) \in 1..call.target_k
              /\ NoneNearlySame(centroids))
  /\ [][pc = "random_loop" =>
         \/ pc' = "done"
         \/ /\ km'.attempts = km.attempts + 1
            /\ km'.rng = Rng_gen_index(km.rng, Len(samples))[2]
            /\ km.attempts < 16 * call.target_k
            /\ Len(km'.centroids) \in {Len(km.centroids), Len(km.centroids) + 1}]_vars

\* the loop ended by the cap: 16 * k draws and fewer than k centroids
C24_Witness ==
  /\ RandomCalled
  /\ pc = "done"
  /\ call.target_k = 2
  /\ Len(samples) = 3
  /\ km.attempts = 32
  /\ Len(centroids) = 1

\* the steps return what the function as a whole returns
RandomStepsAgree ==
  RandomCalled /\ pc = "done" =>
    centroids = init_centroids_random(samples, call.target_k, settings.seed)

SplitSampleDone == pc = "done" /\ call.fn = "sample_indices_for_split"

\* out from position a on is found in seq from position b on, in order
RECURSIVE SubseqFrom(_, _, _, _)
SubseqFrom(out, a, seq, b) ==
  IF a > Len(out) THEN TRUE
  ELSE IF b > Len(seq) THEN FALSE
  ELSE IF out[a] = seq[b] THEN SubseqFrom(out, a + 1, seq, b + 1)
  ELSE SubseqFrom(out, a, seq, b + 1)

\* C25: sample_indices_for_split returns, for every seed, exactly
\* min(|indices|, limit) indices, each taken from the input, without
\* repetition and in the input's order; with |indices| <= limit it returns
\* the input unchanged.
C25_SplitSampleSubsequence ==
  SplitSampleDone =>
    /\ Len(loop_labels) = Min2(Len(call.indices), call.limit)
    /\ SubseqFrom(loop_labels, 1, call.indices, 1)
    /\ NoRepeat(loop_labels)
    /\ Len(call.indices) <= call.limit => loop_labels = call.indices

\* a selection of two of five indices that is not the first two
C25_Witness ==
  /\ SplitSampleDone
  /\ Len(call.indices) = 5
  /\ call.limit = 2
  /\ Len(loop_labels) = 2
  /\ loop_labels[1] # call.indices[1]
  /\ loop_labels[2] # call.indices[5]

CircularDeltaDone == pc = "done" /\ call.fn = "circular_delta"

\* C26: for a and b in [0, 1], circular_delta(a, b) differs from a - b by
\* -1, 0 or +1 and its magnitude is at most 0.5; values just either side of
\* the 0/1 boundary are as far apart as the way across the boundary (for the
\* grid neighbours of 0.999 and 0.001, 1 - 1/One and 1/One: 2/One, not
\* 1 - 2/One).
C26_CircularDeltaWraps ==
  CircularDeltaDone =>
    /\ result - (call.a - call.b) \in {-One, 0, One}
    /\ 2 * Abs(result) <= One
    /\ call.a >= One - 2 /\ call.b <= 2 =>
         Abs(result) = (One - call.a) + call.b

\* the hue just below 1 against the hue just above 0
C26_Witness ==
  /\ CircularDeltaDone
  /\ call.a = One - 1
  /\ call.b = 1
  /\ result = -2

FeatureDistanceDone == pc = "done" /\ call.fn = "feature_distance_sq"

\* C27: feature_distance_sq depends on channels 0, 1 and 2 only: with the
\* alpha component of either argument changed it returns the same value, in
\* every colour space.
C27_AlphaIgnored ==
  FeatureDistanceDone => result.first = result.second

\* a hue colour space, both alphas changed, a distance above zero
C27_Witness ==
  /\ FeatureDistanceDone
  /\ settings.color_space = "Oklch"
  /\ call.a[4] # call.alpha_a
  /\ call.b[4] # call.alpha_b
  /\ result.first > 0
  /\ result.first = result.second

\* a round of run_xmeans / run_gmeans ends and another round follows
RoundGoesOn == AutoPath /\ pc = "km_ret" /\ arg.ret = "round" /\ arg'.ret = "round"

C29_NoEmptyCluster ==
  pc = "km_ret" /\ result.centroids # <<>> =>
    \A c \in 1..Len(result.counts) : result.counts[c] >= 1

\* x-means or g-means on a frame of one colour, not started from the selected
\* colours
OneColourCase ==
  AutoPath /\ OneColour(samples) /\ settings.init_method # "SelectedColors"

\* C30: on a non-empty sample array whose feature vectors are all identical,
\* with an init method other than SelectedColors, run_xmeans and run_gmeans
\* accept no split (the first round's pass has split_count = 0 and the final
\* run_kmeans follows it) and return exactly one centroid, which holds all
\* samples.
C30_OneColourNeverSplits ==
  /\ [](OneColourCase /\ pc = "done" =>
         /\ Len(result.centroids) = 1
         /\ result.counts = << Len(samples) >>
         /\ \A i \in 1..Len(samples) : result.labels[i] = 0
         /\ handed = <<1, 1>>)
  /\ [][OneColourCase /\ pc = "km_ret" /\ arg.ret = "round" =>
         /\ arg'.ret = "return"
         /\ LastPass(build_cluster_indices(result.labels,
                                           Len(result.centroids))).split_count = 0]_vars

\* g-means returned from a frame of sixty equal samples that it started with
\* the k-means|| initializer
C30_Witness ==
  /\ OneColourCase
  /\ pc = "done"
  /\ settings.cluster_method = "GMeans"
  /\ settings.init_method = "KMeansParallel"
  /\ Len(samples) = 60
  /\ Len(result.centroids) = 1
====
